---- MODULE Spec2Model ----
(***************************************************************************)
(* Model of the multichat server (multichat-server/src/server.rs): the     *)
(* group registry, the per-connection task of `connection`, the group      *)
(* reader subtasks, the broadcast channels and the cleanup in `run`; and of *)
(* the client driver (multichat-client/src/client.rs): its reading task,   *)
(* the channel to the caller, the queue of updates and the request calls;  *)
(* and of the wire framing and the access-token text of multichat-proto.   *)
(***************************************************************************)
EXTENDS Integers, Sequences, FiniteSets, TLC

\* ------------------------------------------------------------------ bounds
\* Number of connections accepted by the listener.
NConn == 2
\* Total number of frames the peers send after the handshake.
MaxCmds == 4
\* The same, for the peers that exchange attachments.
MaxFrames == 5
\* The configured `update-buffer` (capacity of the broadcast and mpsc channels).
UpdateBuffer == 1
\* The largest configured `ping-interval` and `ping-timeout`, in clock ticks.
MaxDuration == 2
\* The clock stops at this tick.
MaxTime == 4
\* Total number of frames the peers send while the clock runs.
MaxPongs == 2
\* The client's `incoming_buffer` (capacity of the channel from its reading task).
IncomingBuffer == 1
\* Number of frames the server sends to the client.
MaxStream == 4
\* Number of calls the caller of the client makes.
MaxCalls == 3
\* The longest attachment written to the wire, in bytes.
MaxData == 500

Conns == 1..NConn
GroupNames == {"lobby", "dev"}
Gids == 0..1
Uids == 0..1
Blobs == {<<>>, <<"DE", "AD">>}

\* ------------------------------------------------------------------ slab
\* slab::Slab<T>: entries indexed from 0, and the stack of vacant keys
\* (the most recently removed key is reused first).
Vacant == [k |-> "vacant"]

SlabNew == [ents |-> <<>>, free |-> <<>>]

SlabHas(s, key) == key \in 0..(Len(s.ents) - 1) /\ s.ents[key + 1] # Vacant

SlabGet(s, key) == s.ents[key + 1]

SlabKeys(s) == {key \in 0..(Len(s.ents) - 1) : s.ents[key + 1] # Vacant}

\* Mutant: a vacant key is never reused.
SlabFreshKey(s) == Len(s.ents)

\* Slab::vacant_key: the key the next insert uses.
SlabVacantKey(s) == IF s.free # <<>> THEN Head(s.free) ELSE Len(s.ents)

SlabInsert(s, v) ==
    LET key == SlabVacantKey(s)
    IN  IF key < Len(s.ents)
        THEN [ents |-> [s.ents EXCEPT ![key + 1] = v], free |-> Tail(s.free)]
        ELSE [ents |-> Append(s.ents, v), free |-> s.free]

SlabSet(s, key, v) == [s EXCEPT !.ents[key + 1] = v]

\* Mutant: the vacated key is not recorded.
SlabRemoveForget(s, key) == [ents |-> [s.ents EXCEPT ![key + 1] = Vacant], free |-> s.free]

SlabRemove(s, key) ==
    [ents |-> [s.ents EXCEPT ![key + 1] = Vacant], free |-> <<key>> \o s.free]

\* Slab::retain visits the keys in increasing order and removes each rejected one.
RECURSIVE SlabRemoveFrom(_, _, _)
SlabRemoveFrom(s, key, drop) ==
    IF key >= Len(s.ents) THEN s
    ELSE SlabRemoveFrom(IF key \in drop THEN SlabRemove(s, key) ELSE s, key + 1, drop)

SlabRemoveAll(s, drop) == SlabRemoveFrom(s, 0, drop)

\* ------------------------------------------------------------------ state
VARIABLES
    groups,     \* State.groups: Slab<Group>
    lock,       \* writer of the RwLock around State.groups (0: none)
    chans,      \* the broadcast channel of every group ever created
    glob,       \* State.sender: the global broadcast channel
    relays,     \* the group reader subtasks ever spawned
    pc,         \* where each connection task is
    cur,        \* the client message a connection is handling
    mem,        \* memberships: gid -> Membership
    hello,      \* the handshake frames read from the peer: version, AuthRequest
    gpos,       \* position of the connection's receiver of State.sender
    upd,        \* update_receiver: the per-connection mpsc queue
    out,        \* the server messages written to the connection's socket
    att,        \* attachments: Slab<Arc<Vec<u8>>>
    res,        \* the result of `connection`
    ncmds,      \* frames received so far
    ntag,       \* group updates each connection's task has sent so far
    now,        \* the clock of the runtime's timers
    durations,  \* the configured ping_interval and ping_timeout
    timers,     \* ping_interval, pong_interval and waiting_pong of each connection
    stream_read,    \* client: the frames the server has sent and the client has not read
    peer,           \* client: how many frames, updates and replies the server has sent
    reader,         \* client: the reading task spawned by from_io
    receiver,       \* client: Client.receiver, the channel from the reading task
    updates,        \* client: Client.updates
    stream_write,   \* client: the frames written to Client.stream_write
    caller,         \* client: the call of the Client's user that is in progress
    returned,       \* client: what the calls have returned so far
    wire,           \* codec: a message, the stream it is written to and read from
    parse           \* codec: a string given to the access-token parser

vars == <<groups, lock, chans, glob, relays, pc, cur, mem, hello, gpos, upd, out,
          att, res, ncmds, ntag, now, durations, timers,
          stream_read, peer, reader, receiver, updates, stream_write, caller, returned,
          wire, parse>>

\* The state of the server and the state of the client driver.
serverVars == <<groups, lock, chans, glob, relays, pc, cur, mem, hello, gpos, upd, out,
                att, res, ncmds, ntag, now, durations, timers>>
clientVars == <<stream_read, peer, reader, receiver, updates, stream_write, caller,
                returned>>
codecVars == <<wire, parse>>

\* The Result of `connection`: the error's text and, for a lag, its count.
Result(r, n) == [r |-> r, n |-> n]

NoMem == [k |-> "none"]
NoCmd == [t |-> "None"]

\* The timers of a connection that is not in its loop. pinged is the time the
\* last Ping was written (-1: none), answered tells whether a frame of the peer
\* has been handled since, and active is the time the loop was entered or the
\* last frame of the peer was handled.
NoTimers ==
    [ping_interval |-> 0, pong_interval |-> 0, waiting_pong |-> FALSE,
     pinged |-> -1, answered |-> FALSE, active |-> 0]

\* The state after `run` has built State, but for the configured durations.
Start ==
    /\ now = 0
    /\ timers = [c \in Conns |-> NoTimers]
    /\ stream_read = <<>>
    /\ peer = [frames |-> 0, updates |-> 0, replies |-> 0]
    /\ reader = [pc |-> "select", msg |-> [t |-> "None", n |-> 0]]
    /\ receiver = [buf |-> <<>>, closed |-> FALSE]
    /\ updates = <<>>
    /\ stream_write = <<>>
    /\ caller = [pc |-> "idle", call |-> ""]
    /\ returned = <<>>
    /\ groups = SlabNew
    /\ lock = 0
    /\ chans = <<>>
    /\ glob = <<>>
    /\ relays = <<>>
    /\ pc = [c \in Conns |-> "new"]
    /\ cur = [c \in Conns |-> NoCmd]
    /\ mem = [c \in Conns |-> [g \in Gids |-> NoMem]]
    /\ hello = [c \in Conns |-> <<>>]
    /\ gpos = [c \in Conns |-> -1]
    /\ upd = [c \in Conns |-> <<>>]
    /\ out = [c \in Conns |-> <<>>]
    /\ att = [c \in Conns |-> SlabNew]
    /\ res = [c \in Conns |-> Result("running", 0)]
    /\ ncmds = 0
    /\ ntag = [c \in Conns |-> 0]

\* No message and no access token are being converted.
NoWire == [pc |-> "none"]
NoToken == [pc |-> "none"]
Idle == wire = NoWire /\ parse = NoToken

\* The durations a configuration may hold.
Durations == [ping_interval : 1..MaxDuration, ping_timeout : 1..MaxDuration]

\* A server whose ping-interval is longer than its ping-timeout.
Init ==
    /\ Start
    /\ durations = [ping_interval |-> MaxDuration, ping_timeout |-> 1]
    /\ Idle

\* A server of any configuration.
InitPing ==
    /\ Start
    /\ durations \in Durations
    /\ Idle

\* ------------------------------------------------------------------ helpers
RECURSIVE SlabItemsFrom(_, _)
SlabItemsFrom(s, key) ==
    IF key >= Len(s.ents) THEN <<>>
    ELSE (IF s.ents[key + 1] # Vacant THEN <<[key |-> key, val |-> s.ents[key + 1]]>>
          ELSE <<>>) \o SlabItemsFrom(s, key + 1)

\* Slab::iter: the occupied entries in increasing key order.
SlabIter(s) == SlabItemsFrom(s, 0)

RECURSIVE NextPowerOfTwoFrom(_, _)
NextPowerOfTwoFrom(n, p) == IF p >= n THEN p ELSE NextPowerOfTwoFrom(n, 2 * p)

\* tokio's broadcast::channel rounds the capacity up to a power of two.
Cap == NextPowerOfTwoFrom(UpdateBuffer, 1)

Group(name, ch) == [k |-> "group", name |-> name, users |-> SlabNew, ch |-> ch]
User(name, owner) == [k |-> "user", name |-> name, owner |-> owner]
\* Arc<Vec<u8>>: an attachment as the sender's update and the tables share it.
Arc(data) == [k |-> "blob", data |-> data]
Membership(handle) == [k |-> "member", handle |-> handle, newly_joined |-> TRUE]

\* A ServerMessage as written to a socket. tag and by identify the broadcast
\* group update the message was made from (0 for a message made otherwise).
Msg(t, gid, uid, text, atts, tag, by) ==
    [t |-> t, gid |-> gid, uid |-> uid, text |-> text, atts |-> atts,
     tag |-> tag, by |-> by]
InitGroupMsg(gid, name) == Msg("InitGroup", gid, -1, name, <<>>, 0, 0)
DestroyGroupMsg(gid) == Msg("DestroyGroup", gid, -1, "", <<>>, 0, 0)
InitUserMsg(gid, uid, name) == Msg("InitUser", gid, uid, name, <<>>, 0, 0)
ConfirmGroupMsg(gid) == Msg("ConfirmGroup", gid, -1, "", <<>>, 0, 0)
ConfirmUserMsg(uid) == Msg("ConfirmUser", -1, uid, "", <<>>, 0, 0)
\* Mutant: the reply carries no data.
AttachmentEmpty(data) == Msg("Attachment", -1, -1, "", <<>>, 0, 0)
AttachmentMsg(data) == Msg("Attachment", -1, -1, "", data, 0, 0)

\* A GroupUpdate as sent on a group's channel. tag numbers the updates in the order
\* they are sent, by is the connection whose task sends it, and subs is the set of
\* connections that hold a membership for the group when it is sent.
GroupUpdate(uid, kind, text, atts, tag, by, subs) ==
    [uid |-> uid, kind |-> kind, text |-> text, atts |-> atts, tag |-> tag, by |-> by,
     subs |-> subs]
GlobalUpdate(gid, kind, name) == [gid |-> gid, kind |-> kind, name |-> name]

\* Sender::receiver_count of a group's channel: the live group reader subtasks.
ReceiverCount(rs, ch) ==
    Cardinality({h \in DOMAIN rs : rs[h].ch = ch /\ rs[h].alive})

\* Mutant: the value is stored at the head of the channel.
SendGroupAtHead(cs, rs, ch, update) ==
    IF ReceiverCount(rs, ch) = 0 THEN cs
    ELSE [cs EXCEPT ![ch].log = <<update>> \o @]

\* Sender::send on a group's channel: the value is stored only if a receiver exists.
SendGroup(cs, rs, ch, update) ==
    IF ReceiverCount(rs, ch) = 0 THEN cs
    ELSE [cs EXCEPT ![ch].log = Append(@, update)]

RECURSIVE SendGroupAll(_, _, _, _)
SendGroupAll(cs, rs, ch, values) ==
    IF values = <<>> THEN cs
    ELSE SendGroupAll(SendGroup(cs, rs, ch, Head(values)), rs, ch, Tail(values))

\* The connections that hold a receiver of State.sender.
GlobalReceivers == {c \in Conns : gpos[c] >= 0}

\* Mutant: the global update is not sent.
SendGlobalNothing(gl, update) == gl

\* Sender::send on State.sender.
SendGlobal(gl, update) == IF GlobalReceivers = {} THEN gl ELSE Append(gl, update)

\* `connection` returns r: its locals (receivers, queues, attachments) are dropped.
ReturnWith(c, result) ==
    /\ pc' = [pc EXCEPT ![c] = "exited"]
    /\ res' = [res EXCEPT ![c] = result]
    /\ cur' = [cur EXCEPT ![c] = NoCmd]
    /\ gpos' = [gpos EXCEPT ![c] = -1]
    /\ upd' = [upd EXCEPT ![c] = <<>>]
    /\ att' = [att EXCEPT ![c] = SlabNew]

Return(c, r) == ReturnWith(c, Result(r, 0))

\* The error made from a lagged receiver, which names the number of skipped updates.
Skipped(c, r, n) == ReturnWith(c, Result(r, n))

Write(c, msgs) == out' = [out EXCEPT ![c] = @ \o msgs]

\* ------------------------------------------------------------------ timers
\* time::interval: the first tick completes at once (server.rs 194-196).
Created ==
    [ping_interval |-> now, pong_interval |-> now, waiting_pong |-> FALSE,
     pinged |-> -1, answered |-> FALSE, active |-> now]

\* Interval::reset: the next tick completes one period after the current time.
Reset(period) == now + period

\* Mutant: a handled frame leaves the wait for a pong as it is.
HeardKeeps(t) ==
    [t EXCEPT !.ping_interval = Reset(durations.ping_interval),
              !.pong_interval = Reset(durations.ping_timeout),
              !.answered = TRUE,
              !.active = now]

\* A client message is taken from server_receiver (server.rs 235-240).
HeardReset(t) ==
    [t EXCEPT !.ping_interval = Reset(durations.ping_interval),
              !.pong_interval = Reset(durations.ping_timeout),
              !.waiting_pong = FALSE,
              !.answered = TRUE,
              !.active = now]

\* The timers after a step in which the connections of heard have taken a client
\* message: the timers of a task that has returned are dropped.
Timers(heard) ==
    /\ timers' = [c \in Conns |->
                    IF pc'[c] \in {"new", "exited", "panicked", "cleanup", "done"}
                    THEN NoTimers
                    ELSE IF c \in heard THEN HeardReset(timers[c]) ELSE timers[c]]
    /\ UNCHANGED <<now, durations, clientVars, codecVars>>

Heard(c) == Timers({c})
Quiet == Timers({})

\* ------------------------------------------------------------------ handshake
\* Mutant: no initial message is written.
InitGroupNone(gs) == <<>>

\* The InitGroup messages for a copy of the registry (server.rs 170-189).
InitGroupMsgs(gs) ==
    [i \in 1..Len(SlabIter(gs)) |-> InitGroupMsg(SlabIter(gs)[i].key, SlabIter(gs)[i].val.name)]

\* Version::CURRENT (version.rs 6).
CURRENT == [major |-> 1, minor |-> 0]

\* The versions a peer may present: the current one, one of the same major
\* version and one of another major version.
Versions == {CURRENT, [major |-> 1, minor |-> 1], [major |-> 2, minor |-> 0]}

\* State.access_tokens, and the tokens a peer may present.
access_tokens == {"secret"}
Tokens == {"secret", "guess"}

\* The version as written to the socket, and the two AuthResponse values.
VersionMsg(v) == Msg("Version", -1, -1, ToString(v.major) \o "." \o ToString(v.minor),
                     <<>>, 0, 0)
AuthFailedMsg == Msg("AuthResponse::Failed", -1, -1, "", <<>>, 0, 0)
AuthSuccessMsg == Msg("AuthResponse::Success", -1, -1, "", <<>>, 0, 0)
AuthRequest(token) == [t |-> "AuthRequest", access_token |-> token]

\* Mutant: versions of the same major version are accepted (Version::is_compatible).
IncompatibleMajor(version) == version.major # CURRENT.major

\* version != Version::CURRENT (server.rs 134).
Incompatible(version) == version # CURRENT

\* A connection is accepted (in the order of the connection numbers): the server
\* writes its version and reads the peer's (server.rs 131-136), reads the
\* AuthRequest and answers it (server.rs 139-157), then writes the initial
\* InitGroup messages from a copy made under the read lock (server.rs 170-189).
Connect(c, versions, tokens) ==
    /\ pc[c] = "new"
    /\ \A d \in Conns : d < c => pc[d] # "new"
    /\ \E version \in versions :
        IF Incompatible(version)
        THEN /\ hello' = [hello EXCEPT ![c] = <<version>>]
             /\ Write(c, <<VersionMsg(CURRENT)>>)
             /\ Return(c, "Incompatible version")
        ELSE \E token \in tokens :
             /\ hello' = [hello EXCEPT ![c] = <<version, AuthRequest(token)>>]
             /\ IF token \notin access_tokens
                THEN /\ Write(c, <<VersionMsg(CURRENT), AuthFailedMsg>>)
                     /\ Return(c, "Invalid access token")
                ELSE /\ lock = 0
                     /\ Write(c, <<VersionMsg(CURRENT), AuthSuccessMsg>>
                                 \o InitGroupMsgs(groups))
                     /\ pc' = [pc EXCEPT ![c] = "subscribe"]
                     /\ UNCHANGED <<res, cur, gpos, upd, att>>
    /\ UNCHANGED <<groups, lock, chans, glob, relays, mem, ncmds, ntag>>
    /\ Quiet

\* state.sender.subscribe(): the receiver starts at the tail of the channel.
Subscribe(c) ==
    /\ pc[c] = "subscribe"
    /\ gpos' = [gpos EXCEPT ![c] = Len(glob)]
    /\ pc' = [pc EXCEPT ![c] = "select"]
    /\ UNCHANGED <<hello, groups, lock, chans, glob, relays, cur, mem, upd, out, att, res,
                   ncmds, ntag>>
    /\ timers' = [timers EXCEPT ![c] = Created]
    /\ UNCHANGED <<now, durations, clientVars, codecVars>>

\* ------------------------------------------------------------------ commands
Min(S) == CHOOSE x \in S : \A y \in S : x <= y

\* The loop is at select! and the peer's next frame has arrived.
CanReceive(c) == pc[c] = "select"

\* Mutant: the write lock is granted while another task holds it.
Unlocked == TRUE

\* RwLock::write / RwLock::read on State.groups can be acquired.
CanWrite == lock = 0
CanRead == lock = 0

\* Mutant: the receiver of a new reader subtask starts at the head of the channel.
SpawnAtHead(c, gid, ch, next) ==
    [conn |-> c, gid |-> gid, ch |-> ch, next |-> 0, start |-> 0, alive |-> TRUE]

\* sender.subscribe() and tokio::spawn of the reader subtask (server.rs 263-280):
\* the receiver starts at the tail of the channel, which start remembers.
Spawn(c, gid, ch, next) ==
    [conn |-> c, gid |-> gid, ch |-> ch, next |-> next, start |-> next, alive |-> TRUE]

\* A reader subtask that has returned, its receiver dropped.
Dead(r) == [r EXCEPT !.alive = FALSE, !.next = 0, !.start = 0]

\* JoinHandle::abort followed by awaiting the handle: the receiver is dropped.
Abort(rs, hs) ==
    [h \in DOMAIN rs |-> IF h \in hs THEN Dead(rs[h]) ELSE rs[h]]

\* Mutant: the search by name finds nothing.
FindNone(gs, name) == {}

\* groups.iter_mut().find(|(_, group)| group.name == name)
Find(gs, name) == {gid \in SlabKeys(gs) : SlabGet(gs, gid).name = name}

\* JoinGroup (server.rs 243-329). The group is found or created and the reader
\* subtask subscribed under the write lock. For a new group InitGroup is sent on
\* the global channel and ConfirmGroup written before the guard is dropped; for an
\* existing group the lock is still held when this step ends, and JoinSnapshot
\* completes the handler.
JoinGroup(c, names) ==
    /\ CanReceive(c)
    /\ CanWrite
    /\ \E name \in names :
        LET new == Find(groups, name) = {}
            gid == IF new THEN SlabVacantKey(groups) ELSE Min(Find(groups, name))
            ch == IF new THEN Len(chans) + 1 ELSE SlabGet(groups, gid).ch
            chans1 == IF new THEN Append(chans, [log |-> <<>>]) ELSE chans
            handle == Len(relays) + 1
        IN  /\ gid \in Gids
            /\ groups' = (IF new THEN SlabInsert(groups, Group(name, ch)) ELSE groups)
            /\ chans' = chans1
            /\ relays' = Append(relays, Spawn(c, gid, ch, Len(chans1[ch].log)))
            /\ mem' = [mem EXCEPT ![c][gid] = Membership(handle)]
            /\ IF mem[c][gid] # NoMem
               THEN /\ Return(c, "Attempted to join a group twice")
                    /\ UNCHANGED <<lock, glob, out>>
               ELSE IF new
               THEN /\ glob' = SendGlobal(glob, GlobalUpdate(gid, "InitGroup", name))
                    /\ Write(c, <<ConfirmGroupMsg(gid)>>)
                    /\ UNCHANGED <<lock, pc, cur, res, gpos, upd, att>>
               ELSE /\ lock' = c
                    /\ pc' = [pc EXCEPT ![c] = "join_snap"]
                    /\ cur' = [cur EXCEPT ![c] = [t |-> "JoinGroup", name |-> name, gid |-> gid]]
                    /\ UNCHANGED <<glob, out, res, gpos, upd, att>>
    /\ ncmds' = ncmds + 1
    /\ UNCHANGED <<hello, ntag>>
    /\ Heard(c)

\* group.users.iter().map(|(uid, user)| (uid, user.name.clone())).collect()
UsersOf(g) ==
    [i \in 1..Len(SlabIter(g.users)) |->
        [uid |-> SlabIter(g.users)[i].key, name |-> SlabIter(g.users)[i].val.name]]

InitUserMsgs(gid, users) ==
    [i \in 1..Len(users) |-> InitUserMsg(gid, users[i].uid, users[i].name)]

\* JoinGroup of an existing group: the users are copied and the lock dropped, then
\* the copied users and ConfirmGroup are written (server.rs 302-326).
JoinSnapshot(c) ==
    /\ pc[c] = "join_snap"
    /\ lock' = 0
    /\ Write(c, InitUserMsgs(cur[c].gid, UsersOf(SlabGet(groups, cur[c].gid)))
                \o <<ConfirmGroupMsg(cur[c].gid)>>)
    /\ cur' = [cur EXCEPT ![c] = NoCmd]
    /\ pc' = [pc EXCEPT ![c] = "select"]
    /\ UNCHANGED <<hello, groups, chans, glob, relays, mem, gpos, upd, att, res,
                   ncmds, ntag>>
    /\ Quiet

\* Mutant: the owner is not compared.
OwnsAny(user, c) == TRUE

\* user.owner == addr
Owns(user, c) == user.owner = c

\* The keys of the users Group::cleanup_users(addr) removes.
Owned(g, c) == {uid \in SlabKeys(g.users) : Owns(SlabGet(g.users, uid), c)}

RECURSIVE SetToSeq(_)
SetToSeq(S) == IF S = {} THEN <<>> ELSE <<Min(S)>> \o SetToSeq(S \ {Min(S)})

\* The DestroyUser updates Group::cleanup_users(addr) sends, in key order.
CleanupUpdates(g, c, tag, subs) ==
    [i \in 1..Cardinality(Owned(g, c)) |->
        GroupUpdate(SetToSeq(Owned(g, c))[i], "DestroyUser", "", <<>>, tag + i, c, subs)]

\* Mutant: retain keeps every user.
CleanupNothing(g, c) == g

\* Group::cleanup_users (server.rs 712-725)
CleanupUsers(g, c) == [g EXCEPT !.users = SlabRemoveAll(@, Owned(g, c))]

\* The connections whose memberships map m holds an entry for gid.
Members(m, gid) == {c \in Conns : m[c][gid] # NoMem}

\* LeaveGroup (server.rs 330-371)
LeaveGroup(c, gids) ==
    /\ CanReceive(c)
    /\ CanWrite
    /\ \E gid \in gids :
        IF ~SlabHas(groups, gid)
        THEN /\ Return(c, "Attempted to leave a nonexistent group")
             /\ UNCHANGED <<groups, chans, glob, relays, mem, ntag>>
        ELSE IF mem[c][gid] = NoMem
        THEN /\ Return(c, "Attempted to leave a non-joined group")
             /\ UNCHANGED <<groups, chans, glob, relays, mem, ntag>>
        ELSE LET g == SlabGet(groups, gid)
                 relays1 == Abort(relays, {mem[c][gid].handle})
                 mem1 == [mem EXCEPT ![c][gid] = NoMem]
                 destroyed == CleanupUpdates(g, c, ntag[c], Members(mem1, gid))
             IN  /\ relays' = relays1
                 /\ mem' = mem1
                 /\ chans' = SendGroupAll(chans, relays1, g.ch, destroyed)
                 /\ ntag' = [ntag EXCEPT ![c] = @ + Len(destroyed)]
                 /\ IF ReceiverCount(relays1, g.ch) = 0
                    THEN /\ groups' = SlabRemove(groups, gid)
                         /\ glob' = SendGlobal(glob, GlobalUpdate(gid, "DestroyGroup", ""))
                    ELSE /\ groups' = SlabSet(groups, gid, CleanupUsers(g, c))
                         /\ glob' = glob
                 /\ UNCHANGED <<pc, cur, gpos, upd, att, res>>
    /\ ncmds' = ncmds + 1
    /\ UNCHANGED <<hello, lock, out>>
    /\ Heard(c)

UserNames == {"alice"}
NewNames == {"bob"}

\* InitUser (server.rs 372-407): the user is inserted, ConfirmUser written and the
\* InitUser update sent, all under the write lock; a failed write returns with the
\* user inserted and no update sent.
InitUser(c, gids, writes) ==
    /\ CanReceive(c)
    /\ CanWrite
    /\ \E gid \in gids, name \in UserNames, written \in writes :
        IF ~SlabHas(groups, gid)
        THEN /\ written
             /\ Return(c, "Attempted to init a user in a nonexistent group")
             /\ UNCHANGED <<groups, chans, out, ntag>>
        ELSE LET g == SlabGet(groups, gid)
                 uid == SlabVacantKey(g.users)
             IN  /\ uid \in Uids
                 /\ groups' = SlabSet(groups, gid,
                                      [g EXCEPT !.users = SlabInsert(@, User(name, c))])
                 /\ IF written
                    THEN /\ Write(c, <<ConfirmUserMsg(uid)>>)
                         /\ chans' = SendGroup(chans, relays, g.ch,
                                               GroupUpdate(uid, "InitUser", name, <<>>,
                                                           ntag[c] + 1, c, Members(mem, gid)))
                         /\ ntag' = [ntag EXCEPT ![c] = @ + 1]
                         /\ UNCHANGED <<pc, cur, res, gpos, upd, att>>
                    ELSE /\ Return(c, "write failed")
                         /\ UNCHANGED <<chans, out, ntag>>
    /\ ncmds' = ncmds + 1
    /\ UNCHANGED <<hello, lock, glob, relays, mem>>
    /\ Heard(c)

\* InitUser when the write of ConfirmUser does not complete at once (server.rs
\* 372-397): the user is inserted and the task waits in config.write with the
\* write guard `groups` alive, which `group` is borrowed from until line 399.
InitUserPending(c, gids) ==
    /\ CanReceive(c)
    /\ CanWrite
    /\ \E gid \in gids, name \in UserNames :
        /\ SlabHas(groups, gid)
        /\ LET g == SlabGet(groups, gid)
               uid == SlabVacantKey(g.users)
           IN  /\ uid \in Uids
               /\ groups' = SlabSet(groups, gid,
                                    [g EXCEPT !.users = SlabInsert(@, User(name, c))])
               /\ cur' = [cur EXCEPT ![c] = [t |-> "InitUser", gid |-> gid, uid |-> uid,
                                             name |-> name]]
    /\ lock' = c
    /\ pc' = [pc EXCEPT ![c] = "confirm_user"]
    /\ ncmds' = ncmds + 1
    /\ UNCHANGED <<hello, chans, glob, relays, mem, gpos, upd, out, att, res, ntag>>
    /\ Heard(c)

\* The write of ConfirmUser completes or fails (server.rs 395-407): the update is
\* sent and the guard dropped at the end of the handler, or the task returns.
ConfirmUserWritten(c, writes) ==
    /\ pc[c] = "confirm_user"
    /\ \E written \in writes :
        IF written
        THEN /\ Write(c, <<ConfirmUserMsg(cur[c].uid)>>)
             /\ chans' = SendGroup(chans, relays, SlabGet(groups, cur[c].gid).ch,
                                   GroupUpdate(cur[c].uid, "InitUser", cur[c].name, <<>>,
                                               ntag[c] + 1, c, Members(mem, cur[c].gid)))
             /\ ntag' = [ntag EXCEPT ![c] = @ + 1]
             /\ pc' = [pc EXCEPT ![c] = "select"]
             /\ cur' = [cur EXCEPT ![c] = NoCmd]
             /\ UNCHANGED <<res, gpos, upd, att>>
        ELSE /\ Return(c, "write failed")
             /\ UNCHANGED <<chans, out, ntag>>
    /\ lock' = 0
    /\ UNCHANGED <<hello, groups, glob, relays, mem, ncmds>>
    /\ Quiet

\* JoinGroup of a new group when the write of ConfirmGroup does not complete at
\* once (server.rs 243-326): the group is created, the subtask spawned and the
\* global InitGroup sent; the guard `groups`, dropped only on the other branch
\* (308), is alive while the task waits in config.write.
JoinGroupPending(c, names) ==
    /\ CanReceive(c)
    /\ CanWrite
    /\ \E name \in names :
        LET gid == SlabVacantKey(groups)
            ch == Len(chans) + 1
            handle == Len(relays) + 1
        IN  /\ Find(groups, name) = {}
            /\ gid \in Gids
            /\ mem[c][gid] = NoMem
            /\ groups' = SlabInsert(groups, Group(name, ch))
            /\ chans' = Append(chans, [log |-> <<>>])
            /\ relays' = Append(relays, Spawn(c, gid, ch, 0))
            /\ mem' = [mem EXCEPT ![c][gid] = Membership(handle)]
            /\ glob' = SendGlobal(glob, GlobalUpdate(gid, "InitGroup", name))
            /\ cur' = [cur EXCEPT ![c] = [t |-> "JoinGroup", name |-> name, gid |-> gid]]
    /\ lock' = c
    /\ pc' = [pc EXCEPT ![c] = "confirm_group"]
    /\ ncmds' = ncmds + 1
    /\ UNCHANGED <<hello, gpos, upd, out, att, res, ntag>>
    /\ Heard(c)

\* The write of ConfirmGroup completes (server.rs 324-329) and the guard is dropped.
ConfirmGroupWritten(c) ==
    /\ pc[c] = "confirm_group"
    /\ Write(c, <<ConfirmGroupMsg(cur[c].gid)>>)
    /\ cur' = [cur EXCEPT ![c] = NoCmd]
    /\ pc' = [pc EXCEPT ![c] = "select"]
    /\ lock' = 0
    /\ UNCHANGED <<hello, groups, chans, glob, relays, mem, gpos, upd, att, res, ncmds,
                   ntag>>
    /\ Quiet

\* DestroyUser (server.rs 408-444)
DestroyUser(c, gids, uids) ==
    /\ CanReceive(c)
    /\ CanWrite
    /\ \E gid \in gids, uid \in uids :
        IF ~SlabHas(groups, gid)
        THEN /\ Return(c, "Attempted to destroy a user from a nonexistent group")
             /\ UNCHANGED <<groups, chans, ntag>>
        ELSE IF ~SlabHas(SlabGet(groups, gid).users, uid)
        THEN /\ Return(c, "Attempted to destroy a nonexistent user")
             /\ UNCHANGED <<groups, chans, ntag>>
        ELSE IF ~Owns(SlabGet(SlabGet(groups, gid).users, uid), c)
        THEN /\ Return(c, "Attempted to destroy a non owned user")
             /\ UNCHANGED <<groups, chans, ntag>>
        ELSE LET g == SlabGet(groups, gid)
             IN  /\ groups' = SlabSet(groups, gid, [g EXCEPT !.users = SlabRemove(@, uid)])
                 /\ chans' = SendGroup(chans, relays, g.ch,
                                       GroupUpdate(uid, "DestroyUser", "", <<>>, ntag[c] + 1, c,
                                                   Members(mem, gid)))
                 /\ ntag' = [ntag EXCEPT ![c] = @ + 1]
                 /\ UNCHANGED <<pc, cur, gpos, upd, att, res>>
    /\ ncmds' = ncmds + 1
    /\ UNCHANGED <<hello, lock, glob, relays, mem, out>>
    /\ Heard(c)

\* Rename (server.rs 498-540)
Rename(c, gids, uids) ==
    /\ CanReceive(c)
    /\ CanWrite
    /\ \E gid \in gids, uid \in uids, name \in NewNames :
        IF ~SlabHas(groups, gid)
        THEN /\ Return(c, "Attempted to rename a user from a nonexistent group")
             /\ UNCHANGED <<groups, chans, ntag>>
        ELSE IF ~SlabHas(SlabGet(groups, gid).users, uid)
        THEN /\ Return(c, "Attempted to rename a nonexistent user")
             /\ UNCHANGED <<groups, chans, ntag>>
        ELSE IF ~Owns(SlabGet(SlabGet(groups, gid).users, uid), c)
        THEN /\ Return(c, "Attempted to rename a non owned user")
             /\ UNCHANGED <<groups, chans, ntag>>
        ELSE LET g == SlabGet(groups, gid)
             IN  /\ groups' = SlabSet(groups, gid,
                                      [g EXCEPT !.users.ents[uid + 1].name = name])
                 /\ chans' = SendGroup(chans, relays, g.ch,
                                       GroupUpdate(uid, "Rename", name, <<>>, ntag[c] + 1, c,
                                                   Members(mem, gid)))
                 /\ ntag' = [ntag EXCEPT ![c] = @ + 1]
                 /\ UNCHANGED <<pc, cur, gpos, upd, att, res>>
    /\ ncmds' = ncmds + 1
    /\ UNCHANGED <<hello, lock, glob, relays, mem, out>>
    /\ Heard(c)

Texts == {"hi"}
AttachmentLists == {<<>>, << <<"DE", "AD">> >>}

\* SendMessage (server.rs 445-497), under the read lock
SendMessage(c, gids, uids, lists) ==
    /\ CanReceive(c)
    /\ CanRead
    /\ \E gid \in gids, uid \in uids, message \in Texts, attachments \in lists :
        IF ~SlabHas(groups, gid)
        THEN /\ Return(c, "Attempted to send a message to a nonexistent group")
             /\ UNCHANGED <<chans, ntag>>
        ELSE IF ~SlabHas(SlabGet(groups, gid).users, uid)
        THEN /\ Return(c, "Attempted to send a message as a nonexistent user")
             /\ UNCHANGED <<chans, ntag>>
        ELSE IF ~Owns(SlabGet(SlabGet(groups, gid).users, uid), c)
        THEN /\ Return(c, "Attempted to send a message as a non owned user")
             /\ UNCHANGED <<chans, ntag>>
        ELSE /\ chans' = SendGroup(chans, relays, SlabGet(groups, gid).ch,
                                   GroupUpdate(uid, "Message", message, attachments,
                                               ntag[c] + 1, c, Members(mem, gid)))
             /\ ntag' = [ntag EXCEPT ![c] = @ + 1]
             /\ UNCHANGED <<pc, cur, gpos, upd, att, res>>
    /\ ncmds' = ncmds + 1
    /\ UNCHANGED <<hello, groups, lock, glob, relays, mem, out>>
    /\ Heard(c)

AttIds == 0..1

\* Mutant: the attachment is looked up and left in the table.
DownloadKeep(c, ids) ==
    /\ CanReceive(c)
    /\ \E id \in ids :
        IF ~SlabHas(att[c], id)
        THEN /\ Return(c, "Attempted to download a nonexistent attachment")
             /\ UNCHANGED out
        ELSE /\ Write(c, <<AttachmentMsg(SlabGet(att[c], id).data)>>)
             /\ UNCHANGED <<pc, cur, gpos, upd, res, att>>
    /\ ncmds' = ncmds + 1
    /\ UNCHANGED <<hello, groups, lock, chans, glob, relays, mem, ntag>>
    /\ Heard(c)

\* DownloadAttachment (server.rs 541-563)
DownloadAttachment(c, ids) ==
    /\ CanReceive(c)
    /\ \E id \in ids :
        IF ~SlabHas(att[c], id)
        THEN /\ Return(c, "Attempted to download a nonexistent attachment")
             /\ UNCHANGED out
        ELSE /\ att' = [att EXCEPT ![c] = SlabRemove(@, id)]
             /\ Write(c, <<AttachmentMsg(SlabGet(att[c], id).data)>>)
             /\ UNCHANGED <<pc, cur, gpos, upd, res>>
    /\ ncmds' = ncmds + 1
    /\ UNCHANGED <<hello, groups, lock, chans, glob, relays, mem, ntag>>
    /\ Heard(c)

\* IgnoreAttachment (server.rs 564-577)
IgnoreAttachment(c, ids) ==
    /\ CanReceive(c)
    /\ \E id \in ids :
        IF ~SlabHas(att[c], id)
        THEN Return(c, "Attempted to ignore a nonexistent attachment")
        ELSE /\ att' = [att EXCEPT ![c] = SlabRemove(@, id)]
             /\ UNCHANGED <<pc, cur, gpos, upd, res>>
    /\ ncmds' = ncmds + 1
    /\ UNCHANGED <<hello, groups, lock, chans, glob, relays, mem, out, ntag>>
    /\ Heard(c)

\* Shutdown (server.rs 579-582)
Shutdown(c) ==
    /\ CanReceive(c)
    /\ Return(c, "Ok")
    /\ ncmds' = ncmds + 1
    /\ UNCHANGED <<hello, groups, lock, chans, glob, relays, mem, out, ntag>>
    /\ Heard(c)

\* Pong (server.rs 578)
Pong(c) ==
    /\ CanReceive(c)
    /\ ncmds' = ncmds + 1
    /\ UNCHANGED <<hello, groups, lock, chans, glob, relays, pc, cur, mem, gpos, upd, out,
                   att, res, ntag>>
    /\ Heard(c)

\* The reader subtask forwards an I/O or decode error (server.rs 161-168, 218).
ReadError(c) ==
    /\ CanReceive(c)
    /\ Return(c, "read failed")
    /\ ncmds' = ncmds + 1
    /\ UNCHANGED <<hello, groups, lock, chans, glob, relays, mem, out, ntag>>
    /\ Quiet

\* ------------------------------------------------------------------ updates
\* Mutant: no slot is allocated.
OfferNothing(slab, blobs) == [slab |-> slab, atts |-> <<>>]

\* Mutant: every blob of a message is announced under the first id.
OfferOne(slab, blobs) ==
    IF blobs = <<>> THEN [slab |-> slab, atts |-> <<>>]
    ELSE [slab |-> SlabInsert(slab, Arc(Head(blobs))),
          atts |-> [p \in 1..Len(blobs) |->
                      [id |-> SlabVacantKey(slab), size |-> Len(blobs[p])]]]

\* attachments.insert for every blob of a Message update (server.rs 660-669).
RECURSIVE Offer(_, _)
Offer(slab, blobs) ==
    IF blobs = <<>> THEN [slab |-> slab, atts |-> <<>>]
    ELSE LET rest == Offer(SlabInsert(slab, Arc(Head(blobs))), Tail(blobs))
         IN  [slab |-> rest.slab,
              atts |-> <<[id |-> SlabVacantKey(slab), size |-> Len(Head(blobs))]>>
                       \o rest.atts]

\* The ServerMessage made from a group update (server.rs 641-678).
UpdateMsg(gid, u, atts) ==
    Msg(u.kind, gid, u.uid, u.text, atts, u.tag, u.by)

\* A group update, or the lag of a reader subtask, taken from update_receiver
\* (server.rs 219-224, 638-681).
RecvUpdate(c) ==
    /\ pc[c] = "select"
    /\ upd[c] # <<>>
    /\ LET head == Head(upd[c])
       IN  IF head.ok
           THEN LET offer == Offer(att[c], head.update.atts)
                IN  /\ att' = [att EXCEPT ![c] = offer.slab]
                    /\ Write(c, <<UpdateMsg(head.gid, head.update, offer.atts)>>)
                    /\ upd' = [upd EXCEPT ![c] = Tail(@)]
                    /\ UNCHANGED <<pc, cur, gpos, res>>
           ELSE /\ Skipped(c, "Skipped group updates", head.num)
                /\ UNCHANGED out
    /\ UNCHANGED <<hello, groups, lock, chans, glob, relays, mem, ncmds, ntag>>
    /\ Quiet

\* Mutant: a lagging receiver reports every value it has not received.
MissedAll(len, next) == IF len - next > Cap THEN len - next ELSE 0

\* The number of values a broadcast receiver at position next has missed.
Missed(len, next) == IF len - next > Cap THEN len - Cap - next ELSE 0

\* A global update taken from the receiver of State.sender (server.rs 225-230,
\* 585-614).
RecvGlobal(c) ==
    /\ pc[c] = "select"
    /\ gpos[c] >= 0
    /\ gpos[c] < Len(glob)
    /\ IF Missed(Len(glob), gpos[c]) > 0
       THEN /\ Skipped(c, "Skipped global updates", Missed(Len(glob), gpos[c]))
            /\ UNCHANGED <<out, mem>>
       ELSE LET u == glob[gpos[c] + 1]
                init == u.kind = "InitGroup"
                snapshot == init /\ mem[c][u.gid] # NoMem /\ mem[c][u.gid].newly_joined
            IN  /\ gpos' = [gpos EXCEPT ![c] = @ + 1]
                /\ Write(c, <<IF init THEN InitGroupMsg(u.gid, u.name)
                                ELSE DestroyGroupMsg(u.gid)>>)
                /\ IF snapshot
                   THEN /\ mem' = [mem EXCEPT ![c][u.gid].newly_joined = FALSE]
                        /\ pc' = [pc EXCEPT ![c] = "global_snap"]
                        /\ cur' = [cur EXCEPT ![c] = [t |-> "Global", gid |-> u.gid]]
                   ELSE UNCHANGED <<mem, pc, cur>>
                /\ UNCHANGED <<upd, att, res>>
    /\ UNCHANGED <<hello, groups, lock, chans, glob, relays, ncmds, ntag>>
    /\ Quiet

\* The task of a connection panics: its locals and its memberships are dropped,
\* the reader subtasks are detached and the cleanup of `run` is skipped.
Panic(c) ==
    /\ pc' = [pc EXCEPT ![c] = "panicked"]
    /\ res' = [res EXCEPT ![c] = Result("panicked", 0)]
    /\ cur' = [cur EXCEPT ![c] = NoCmd]
    /\ gpos' = [gpos EXCEPT ![c] = -1]
    /\ upd' = [upd EXCEPT ![c] = <<>>]
    /\ att' = [att EXCEPT ![c] = SlabNew]
    /\ mem' = [mem EXCEPT ![c] = [g \in Gids |-> NoMem]]

\* The users of a newly joined group are written after its InitGroup
\* (server.rs 616-636); groups[gid] panics if the group is gone.
GlobalSnapshot(c) ==
    /\ pc[c] = "global_snap"
    /\ CanRead
    /\ IF ~SlabHas(groups, cur[c].gid)
       THEN Panic(c) /\ UNCHANGED out
       ELSE /\ Write(c, InitUserMsgs(cur[c].gid, UsersOf(SlabGet(groups, cur[c].gid))))
            /\ cur' = [cur EXCEPT ![c] = NoCmd]
            /\ pc' = [pc EXCEPT ![c] = "select"]
            /\ UNCHANGED <<mem, gpos, upd, att, res>>
    /\ UNCHANGED <<hello, groups, lock, chans, glob, relays, ncmds, ntag>>
    /\ Quiet

\* ------------------------------------------------------------------ reader subtasks
\* update_receiver has been dropped: `connection` has returned.
Dropped(c) == pc[c] \in {"exited", "cleanup", "done", "panicked"}

\* The group of a channel has been dropped, and with it the channel's only Sender.
Closed(ch) == \A gid \in SlabKeys(groups) : SlabGet(groups, gid).ch # ch

\* One turn of the loop of a group reader subtask (server.rs 266-280): a value or
\* a lag is received and sent on to update_sender.
Relay(h) ==
    /\ h \in DOMAIN relays
    /\ relays[h].alive
    /\ LET r == relays[h]
           len == Len(chans[r.ch].log)
           missed == Missed(len, r.next)
       IN  IF missed > 0
           THEN /\ Dropped(r.conn) \/ Len(upd[r.conn]) < UpdateBuffer
                /\ relays' = [relays EXCEPT ![h] = Dead(@)]
                /\ upd' = IF Dropped(r.conn) THEN upd
                          ELSE [upd EXCEPT ![r.conn] = Append(@, [ok |-> FALSE, num |-> missed])]
           ELSE IF r.next < len
           THEN /\ Dropped(r.conn) \/ Len(upd[r.conn]) < UpdateBuffer
                /\ relays' = IF Dropped(r.conn)
                             THEN [relays EXCEPT ![h] = Dead(@)]
                             ELSE [relays EXCEPT ![h].next = @ + 1]
                /\ upd' = IF Dropped(r.conn) THEN upd
                          ELSE [upd EXCEPT ![r.conn] =
                                   Append(@, [ok |-> TRUE, gid |-> r.gid,
                                              update |-> chans[r.ch].log[r.next + 1]])]
           ELSE /\ Closed(r.ch)
                /\ relays' = [relays EXCEPT ![h] = Dead(@)]
                /\ upd' = upd
    /\ UNCHANGED <<hello, groups, lock, chans, glob, pc, cur, mem, gpos, out, att, res,
                   ncmds, ntag>>
    /\ Quiet

\* ------------------------------------------------------------------ cleanup
\* The handles of the memberships a connection holds.
Handles(c) == {mem[c][gid].handle : gid \in {g \in Gids : mem[c][g] # NoMem}}

\* run: the result is logged and every membership's subtask is aborted and awaited
\* (server.rs 81-90). The socket was dropped with the task: what was written to it
\* is no longer kept.
CleanupAbort(c) ==
    /\ pc[c] = "exited"
    /\ relays' = Abort(relays, Handles(c))
    /\ mem' = [mem EXCEPT ![c] = [g \in Gids |-> NoMem]]
    /\ pc' = [pc EXCEPT ![c] = "cleanup"]
    /\ res' = [res EXCEPT ![c] = Result("logged", 0)]
    /\ out' = [out EXCEPT ![c] = <<>>]
    /\ UNCHANGED <<hello, groups, lock, chans, glob, cur, gpos, upd, att, ncmds, ntag>>
    /\ Quiet

\* groups.retain of run (server.rs 93-108), from key gid on: st holds the registry,
\* the channels, the global channel and the number of updates sent.
RECURSIVE Retain(_, _, _)
Retain(st, c, gid) ==
    IF gid >= Len(st.groups.ents) THEN st
    ELSE IF ~SlabHas(st.groups, gid) THEN Retain(st, c, gid + 1)
    ELSE LET g == SlabGet(st.groups, gid)
             destroyed == CleanupUpdates(g, c, st.ntag, Members(mem, gid))
             chans1 == SendGroupAll(st.chans, relays, g.ch, destroyed)
         IN  IF ReceiverCount(relays, g.ch) = 0
             THEN Retain([groups |-> SlabRemove(st.groups, gid),
                          chans |-> chans1,
                          glob |-> SendGlobal(st.glob, GlobalUpdate(gid, "DestroyGroup", "")),
                          ntag |-> st.ntag + Len(destroyed)], c, gid + 1)
             ELSE Retain([groups |-> SlabSet(st.groups, gid, CleanupUsers(g, c)),
                          chans |-> chans1,
                          glob |-> st.glob,
                          ntag |-> st.ntag + Len(destroyed)], c, gid + 1)

\* run: the users of the connection and the groups without receiver are removed
\* under the write lock (server.rs 92-108).
CleanupRetain(c) ==
    /\ pc[c] = "cleanup"
    /\ CanWrite
    /\ LET st == Retain([groups |-> groups, chans |-> chans, glob |-> glob, ntag |-> ntag[c]],
                        c, 0)
       IN  /\ groups' = st.groups
           /\ chans' = st.chans
           /\ glob' = st.glob
           /\ ntag' = [ntag EXCEPT ![c] = st.ntag]
    /\ pc' = [pc EXCEPT ![c] = "done"]
    /\ UNCHANGED <<hello, lock, relays, cur, mem, gpos, upd, out, att, res, ncmds>>
    /\ Quiet

\* The `pong` future of the loop: pending unless waiting_pong (server.rs 207-213).
Awaiting(c) == timers[c].waiting_pong

\* ping_interval.tick() completes: Ping is written, both intervals are reset and
\* the loop waits for a pong (server.rs 231, 682-693).
Ping(c) ==
    /\ pc[c] = "select"
    /\ now >= timers[c].ping_interval
    /\ Write(c, <<Msg("Ping", -1, -1, "", <<>>, 0, 0)>>)
    /\ timers' = [timers EXCEPT ![c] =
                    [ping_interval |-> Reset(durations.ping_interval),
                     pong_interval |-> Reset(durations.ping_timeout),
                     waiting_pong |-> TRUE, pinged |-> now, answered |-> FALSE,
                     active |-> @.active]]
    /\ UNCHANGED <<hello, groups, lock, chans, glob, relays, pc, cur, mem, gpos, upd, att,
                   res, ncmds, ntag, now, durations, clientVars, codecVars>>

\* pong_interval.tick() completes while the loop waits for a pong (server.rs 232).
PongTimeout(c) ==
    /\ pc[c] = "select"
    /\ Awaiting(c)
    /\ now >= timers[c].pong_interval
    /\ Return(c, "Pong timeout")
    /\ UNCHANGED <<hello, groups, lock, chans, glob, relays, mem, out, ncmds, ntag>>
    /\ Quiet

\* A timer of a loop that is at select! has expired.
Due(c) ==
    /\ pc[c] = "select"
    /\ \/ now >= timers[c].ping_interval
       \/ Awaiting(c) /\ now >= timers[c].pong_interval

\* The clock advances by one tick; a timer that has expired is served first.
Tick ==
    /\ now < MaxTime
    /\ \A c \in Conns : ~Due(c)
    /\ now' = now + 1
    /\ UNCHANGED <<hello, groups, lock, chans, glob, relays, pc, cur, mem, gpos, upd, out,
                   att, res, ncmds, ntag, durations, timers, clientVars, codecVars>>

\* ------------------------------------------------------------------ client
\* A ServerMessage as the client reads it: an update (numbered in the order the
\* server sends them), a reply (numbered by the request it answers) or Ping.
Frame(t, n) == [t |-> t, n |-> n]
NoFrame == Frame("None", 0)

\* The request calls, the frame each writes and the reply each waits for.
Requests == {"join_group", "init_user", "download_attachment"}
RequestFrame(call) ==
    CASE call = "join_group" -> "JoinGroup"
      [] call = "init_user" -> "InitUser"
      [] call = "download_attachment" -> "DownloadAttachment"
ReplyTo(t) ==
    CASE t = "JoinGroup" -> "ConfirmGroup"
      [] t = "InitUser" -> "ConfirmUser"
      [] t = "DownloadAttachment" -> "Attachment"
Expected(call) == ReplyTo(RequestFrame(call))

\* translate_message (client.rs 343-393): Ok(update) for an update, Err(reply) for
\* a reply; Ping is unreachable!().
translate_message(message) ==
    IF message.t = "Update" THEN [r |-> "Ok", t |-> message.t, n |-> message.n]
    ELSE IF message.t = "Ping" THEN [r |-> "unreachable", t |-> message.t, n |-> 0]
    ELSE [r |-> "Err", t |-> message.t, n |-> message.n]

\* What a call returns: Ok(v) or Err(err).
Ok(call, v) == [call |-> call, ok |-> TRUE, v |-> v, err |-> ""]
Err(call, err) == [call |-> call, ok |-> FALSE, v |-> 0, err |-> err]

\* The requests the client has written, in order.
Written_requests ==
    SelectSeq(stream_write, LAMBDA f : f \in {"JoinGroup", "InitUser", "DownloadAttachment"})

\* The server sends an update or a Ping, or the reply to the oldest request it has
\* not answered.
ServerSends ==
    /\ peer.frames < MaxStream
    /\ \/ /\ stream_read' = Append(stream_read, Frame("Update", peer.updates + 1))
          /\ peer' = [peer EXCEPT !.frames = @ + 1, !.updates = @ + 1]
       \/ /\ stream_read' = Append(stream_read, Frame("Ping", 0))
          /\ peer' = [peer EXCEPT !.frames = @ + 1]
       \/ /\ peer.replies < Len(Written_requests)
          /\ stream_read' = Append(stream_read,
                Frame(ReplyTo(Written_requests[peer.replies + 1]), peer.replies + 1))
          /\ peer' = [peer EXCEPT !.frames = @ + 1, !.replies = @ + 1]
    /\ UNCHANGED <<reader, receiver, updates, stream_write, caller, returned, serverVars, codecVars>>

\* Mutant: the reading task hands a Ping to the caller like any other message.
ForwardPing(message) == "send"

\* The reading task matches what it has read (client.rs 77-78, 93): a Ping is
\* answered, every other message is sent to the channel.
Dispatch(message) == IF message.t = "Ping" THEN "pong" ELSE "send"

\* The reading task reads a frame (client.rs 71-72).
ReaderRead ==
    /\ reader.pc = "select"
    /\ stream_read # <<>>
    /\ reader' = [pc |-> Dispatch(Head(stream_read)), msg |-> Head(stream_read)]
    /\ stream_read' = Tail(stream_read)
    /\ UNCHANGED <<peer, receiver, updates, stream_write, caller, returned, serverVars, codecVars>>

\* The read fails or the sleep of ping_interval + ping_timeout completes
\* (client.rs 72, 74, 98-101): the error is to be sent and the task returns.
ReaderFails ==
    /\ reader.pc = "select"
    /\ stream_read = <<>>
    /\ reader' = [pc |-> "send", msg |-> Frame("Error", 0)]
    /\ UNCHANGED <<stream_read, peer, receiver, updates, stream_write, caller, returned,
                   serverVars, codecVars>>

\* sender.closed() completes (client.rs 73): the task breaks out of its loop.
ReaderClosed ==
    /\ reader.pc = "select"
    /\ receiver.closed
    /\ reader' = [pc |-> "returned", msg |-> NoFrame]
    /\ UNCHANGED <<stream_read, peer, receiver, updates, stream_write, caller, returned,
                   serverVars, codecVars>>

\* The reading task locks stream_write and writes Pong (client.rs 78-84).
ReaderPong ==
    /\ reader.pc = "pong"
    /\ stream_write' = Append(stream_write, "Pong")
    /\ reader' = [pc |-> "select", msg |-> NoFrame]
    /\ UNCHANGED <<stream_read, peer, receiver, updates, caller, returned, serverVars, codecVars>>

\* Writing Pong fails (client.rs 83-91): the error is to be sent and the task returns.
ReaderPongFails ==
    /\ reader.pc = "pong"
    /\ reader' = [pc |-> "send", msg |-> Frame("Error", 0)]
    /\ UNCHANGED <<stream_read, peer, receiver, updates, stream_write, caller, returned,
                   serverVars, codecVars>>

\* Mutant: closing the receiver does not wake a sender.
SendNeverFails(r) == FALSE

\* Sender::send fails, also when it is already waiting, once the receiver is closed.
SendFails(r) == r.closed

\* sender.send (client.rs 90, 93-101): waits while the channel is full, fails once the
\* receiver is closed; the task returns after a failed send and after an error.
ReaderSend ==
    /\ reader.pc = "send"
    /\ IF SendFails(receiver)
       THEN /\ reader' = [pc |-> "returned", msg |-> NoFrame]
            /\ receiver' = receiver
       ELSE /\ Len(receiver.buf) < IncomingBuffer
            /\ receiver' = [receiver EXCEPT !.buf = Append(@, reader.msg)]
            /\ reader' = [pc |-> IF reader.msg.t = "Error" THEN "returned" ELSE "select",
                          msg |-> NoFrame]
    /\ UNCHANGED <<stream_read, peer, updates, stream_write, caller, returned, serverVars, codecVars>>

\* self.receiver.recv() can complete: a message is buffered, or every sender is gone.
CanRecv == receiver.buf # <<>> \/ reader.pc = "returned"

\* A call returns result.
Returns(result) ==
    /\ returned' = Append(returned, result)
    /\ caller' = [pc |-> "idle", call |-> ""]

\* join_group, init_user, download_attachment: the request is written
\* (client.rs 118-124, 139-148, 220-227).
Request(call) ==
    /\ caller.pc = "idle"
    /\ stream_write' = Append(stream_write, RequestFrame(call))
    /\ caller' = [pc |-> "request", call |-> call]
    /\ UNCHANGED <<stream_read, peer, reader, receiver, updates, returned, serverVars, codecVars>>

\* Mutant: an update that arrives during a request goes to the front of the queue.
push_front(queue, update) == <<update>> \o queue

\* VecDeque::push_back
push_back(queue, update) == Append(queue, update)

\* The loop of a request takes a message from the channel (client.rs 126-133):
\* an update is queued, the expected reply is returned, anything else is an error.
RequestRecv ==
    /\ caller.pc = "request"
    /\ CanRecv
    /\ IF receiver.buf = <<>>
       THEN /\ Returns(Err(caller.call, "BrokenPipe"))
            /\ UNCHANGED <<receiver, updates>>
       ELSE LET message == Head(receiver.buf)
                t == translate_message(message)
            IN  /\ receiver' = [receiver EXCEPT !.buf = Tail(@)]
                /\ IF message.t = "Error"
                   THEN Returns(Err(caller.call, "Error")) /\ updates' = updates
                   ELSE IF t.r = "unreachable"
                   THEN /\ caller' = [pc |-> "panicked", call |-> caller.call]
                        /\ UNCHANGED <<updates, returned>>
                   ELSE IF t.r = "Ok"
                   THEN /\ updates' = push_back(updates, t.n)
                        /\ UNCHANGED <<caller, returned>>
                   ELSE IF t.t = Expected(caller.call)
                   THEN Returns(Ok(caller.call, t.n)) /\ updates' = updates
                   ELSE Returns(Err(caller.call, "Unexpected message")) /\ updates' = updates
    /\ UNCHANGED <<stream_read, peer, reader, stream_write, serverVars, codecVars>>

\* read_update is called (client.rs 256-259): a queued update is returned at once.
ReadUpdate ==
    /\ caller.pc = "idle"
    /\ IF updates # <<>>
       THEN /\ Returns(Ok("read_update", Head(updates)))
            /\ updates' = Tail(updates)
       ELSE /\ caller' = [pc |-> "read_update", call |-> "read_update"]
            /\ UNCHANGED <<updates, returned>>
    /\ UNCHANGED <<stream_read, peer, reader, receiver, stream_write, serverVars, codecVars>>

\* Mutant: a cancelled recv() has taken the message it was about to return.
CancelTakes(r) == [r EXCEPT !.buf = IF @ = <<>> THEN @ ELSE Tail(@)]

\* Dropping the future of recv() leaves the channel as it is.
CancelKeeps(r) == r

\* The update recv() would return now, 0 if it would not return an update.
Pending ==
    IF receiver.buf # <<>> /\ Head(receiver.buf).t = "Update" THEN Head(receiver.buf).n ELSE 0

\* The future of read_update is dropped while it waits in recv() (client.rs 262);
\* the history records the update the call would have returned.
CancelRead ==
    /\ caller.pc = "read_update"
    /\ receiver' = CancelKeeps(receiver)
    /\ Returns([call |-> "read_update", ok |-> FALSE, v |-> Pending, err |-> "cancelled"])
    /\ UNCHANGED <<stream_read, peer, reader, updates, stream_write, serverVars, codecVars>>

\* recv() of read_update completes (client.rs 261-267).
ReadRecv ==
    /\ caller.pc = "read_update"
    /\ CanRecv
    /\ IF receiver.buf = <<>>
       THEN /\ Returns(Err("read_update", "BrokenPipe"))
            /\ receiver' = receiver
       ELSE LET message == Head(receiver.buf)
                t == translate_message(message)
            IN  /\ receiver' = [receiver EXCEPT !.buf = Tail(@)]
                /\ IF message.t = "Error"
                   THEN Returns(Err("read_update", "Error"))
                   ELSE IF t.r = "unreachable"
                   THEN /\ caller' = [pc |-> "panicked", call |-> caller.call]
                        /\ returned' = returned
                   ELSE IF t.r = "Ok"
                   THEN Returns(Ok("read_update", t.n))
                   ELSE Returns(Err("read_update", "Unexpected message"))
    /\ UNCHANGED <<stream_read, peer, reader, updates, stream_write, serverVars, codecVars>>

\* shutdown closes the receiver and awaits the reading task (client.rs 274-275).
ShutdownClose ==
    /\ caller.pc = "idle"
    /\ receiver' = [receiver EXCEPT !.closed = TRUE]
    /\ caller' = [pc |-> "shutdown", call |-> "shutdown"]
    /\ UNCHANGED <<stream_read, peer, reader, updates, stream_write, returned, serverVars, codecVars>>

\* The reading task has returned: Shutdown is written and the writer shut down
\* (client.rs 277-285).
ShutdownWrite ==
    /\ caller.pc = "shutdown"
    /\ reader.pc = "returned"
    /\ stream_write' = Append(stream_write, "Shutdown")
    /\ returned' = Append(returned, Ok("shutdown", 0))
    /\ caller' = [pc |-> "done", call |-> ""]
    /\ UNCHANGED <<stream_read, peer, reader, receiver, updates, serverVars, codecVars>>

\* ------------------------------------------------------------------ wire
\* data.chunks(0xFF) and Config::default().max_size
ChunkSize == 255
DefaultMaxSize == 65535

\* The messages written: a unit variant, a variant with a u32 and a variant with
\* a Cow<[u8]>.
Message(variant, uid, data) == [variant |-> variant, uid |-> uid, data |-> data]
VariantName(variant) ==
    CASE variant = "Ping" -> <<80, 105, 110, 103>>
      [] variant = "ConfirmUser" -> <<67, 111, 110, 102, 105, 114, 109, 85, 115, 101, 114>>
      [] variant = "Attachment" -> <<65, 116, 116, 97, 99, 104, 109, 101, 110, 116>>

\* MessagePack as rmp_serde writes it: fixstr, unsigned integers of the smallest
\* width, array headers, a struct variant as a map of one entry from the name of
\* the variant to the array of its fields, a unit variant as its name.
FixStr(bytes) == <<160 + Len(bytes)>> \o bytes
Uint(v) ==
    IF v < 128 THEN <<v>>
    ELSE IF v < 256 THEN <<204, v>>
    ELSE IF v < 65536 THEN <<205, v \div 256, v % 256>>
    ELSE <<206, v \div 16777216, (v \div 65536) % 256, (v \div 256) % 256, v % 256>>
ArrayHeader(n) == IF n < 16 THEN <<144 + n>> ELSE <<220, n \div 256, n % 256>>
RECURSIVE Uints(_)
Uints(values) ==
    IF Len(values) = 0 THEN <<>>
    ELSE IF Len(values) = 1 THEN Uint(values[1])
    ELSE LET h == Len(values) \div 2
         IN  Uints(SubSeq(values, 1, h)) \o Uints(SubSeq(values, h + 1, Len(values)))

\* rmp_serde::to_vec (wire.rs 67-68)
to_vec(message) ==
    IF message.variant = "Ping" THEN FixStr(VariantName("Ping"))
    ELSE <<129>> \o FixStr(VariantName(message.variant)) \o <<145>>
            \o (IF message.variant = "ConfirmUser" THEN Uint(message.uid)
                ELSE ArrayHeader(Len(message.data)) \o Uints(message.data))

\* Reading MessagePack: the byte at a position (-1 past the end), an unsigned
\* integer, an array header, n elements of type u8.
At(b, i) == IF i \in 1..Len(b) THEN b[i] ELSE -1
Fail == [ok |-> FALSE, v |-> 0, next |-> 0]
ReadUint(b, p) ==
    LET m == At(b, p)
    IN  IF m \in 0..127 THEN [ok |-> TRUE, v |-> m, next |-> p + 1]
        ELSE IF m = 204 /\ At(b, p + 1) >= 0
        THEN [ok |-> TRUE, v |-> At(b, p + 1), next |-> p + 2]
        ELSE IF m = 205 /\ At(b, p + 2) >= 0
        THEN [ok |-> TRUE, v |-> At(b, p + 1) * 256 + At(b, p + 2), next |-> p + 3]
        ELSE IF m = 206 /\ At(b, p + 4) >= 0
        THEN [ok |-> TRUE,
              v |-> At(b, p + 1) * 16777216 + At(b, p + 2) * 65536
                        + At(b, p + 3) * 256 + At(b, p + 4),
              next |-> p + 5]
        ELSE Fail
ReadArrayLen(b, p) ==
    LET m == At(b, p)
    IN  IF m \in 144..159 THEN [ok |-> TRUE, v |-> m - 144, next |-> p + 1]
        ELSE IF m = 220 /\ At(b, p + 2) >= 0
        THEN [ok |-> TRUE, v |-> At(b, p + 1) * 256 + At(b, p + 2), next |-> p + 3]
        ELSE Fail
RECURSIVE ReadU8s(_, _, _)
ReadU8s(b, p, n) ==
    IF n = 0 THEN [ok |-> TRUE, v |-> <<>>, next |-> p]
    ELSE IF n = 1
    THEN LET u == ReadUint(b, p)
         IN  IF u.ok /\ u.v < 256 THEN [ok |-> TRUE, v |-> <<u.v>>, next |-> u.next]
             ELSE [ok |-> FALSE, v |-> <<>>, next |-> 0]
    ELSE LET l == ReadU8s(b, p, n \div 2)
             r == IF l.ok THEN ReadU8s(b, l.next, n - (n \div 2)) ELSE l
         IN  [ok |-> l.ok /\ r.ok, v |-> l.v \o r.v, next |-> r.next]

\* What a conversion returns.
Good(value) == [ok |-> TRUE, value |-> value, err |-> ""]
Bad(err) == [ok |-> FALSE, value |-> Message("", 0, <<>>), err |-> err]

\* The variant named at the start of buffer, "" if none is.
Named_variant(buffer, p) ==
    LET names == {v \in {"Ping", "ConfirmUser", "Attachment"} :
                    /\ At(buffer, p) = 160 + Len(VariantName(v))
                    /\ Len(buffer) >= p + Len(VariantName(v))
                    /\ SubSeq(buffer, p + 1, p + Len(VariantName(v))) = VariantName(v)}
    IN  IF names = {} THEN "" ELSE CHOOSE v \in names : TRUE

\* rmp_serde::from_read (wire.rs 50-53): one value is decoded from the start of
\* the buffer; what follows it is not looked at.
from_read(buffer) ==
    IF At(buffer, 1) # 129
    THEN IF Named_variant(buffer, 1) = "Ping" THEN Good(Message("Ping", 0, <<>>))
         ELSE Bad("InvalidData")
    ELSE LET variant == Named_variant(buffer, 2)
             p == 3 + Len(VariantName(variant))
         IN  IF variant \notin {"ConfirmUser", "Attachment"} \/ At(buffer, p) # 145
             THEN Bad("InvalidData")
             ELSE IF variant = "ConfirmUser"
             THEN LET u == ReadUint(buffer, p + 1)
                  IN  IF u.ok THEN Good(Message(variant, u.v, <<>>)) ELSE Bad("InvalidData")
             ELSE LET n == ReadArrayLen(buffer, p + 1)
                      d == IF n.ok THEN ReadU8s(buffer, n.next, n.v)
                           ELSE [ok |-> FALSE, v |-> <<>>, next |-> 0]
                  IN  IF d.ok THEN Good(Message(variant, 0, d.v)) ELSE Bad("InvalidData")

\* Mutant: no chunk of length 0 after a last chunk that is full.
NoTerminator(data) == <<>>

\* wire.rs 81-84: a last chunk of length 0xFF is followed by a length of 0.
Terminator(data) == IF Len(data) % ChunkSize = 0 THEN <<0>> ELSE <<>>

\* wire.rs 76-79: every chunk of at most 0xFF bytes after its length.
RECURSIVE Chunks(_)
Chunks(data) ==
    IF data = <<>> THEN <<>>
    ELSE LET k == IF Len(data) < ChunkSize THEN Len(data) ELSE ChunkSize
         IN  <<k % 256>> \o SubSeq(data, 1, k) \o Chunks(SubSeq(data, k + 1, Len(data)))

\* Mutant: a payload of exactly max_size is refused.
ExceedsOrEquals(size, max_size) == size >= max_size

\* wire.rs 33 and 69: the size is over the limit.
Exceeds(size, max_size) == size > max_size

\* Config::write (wire.rs 62-89): the result and the stream afterwards.
ConfigWrite(max_size, stream, message) ==
    LET data == to_vec(message)
    IN  IF Exceeds(Len(data), max_size)
        THEN [result |-> Bad("Data size exceeded limit"), stream |-> stream]
        ELSE [result |-> Good(message), stream |-> stream \o Chunks(data) \o Terminator(data)]

\* The loop of Config::read (wire.rs 30-48): the buffer is extended by the whole
\* chunk_buffer of 0xFF bytes, of which the first chunk_length were read.
RECURSIVE ReadChunks(_, _, _)
ReadChunks(max_size, stream, buffer) ==
    IF stream = <<>>
    THEN [err |-> "UnexpectedEof", buffer |-> buffer, stream |-> stream]
    ELSE LET chunk_length == Head(stream)
             rest == Tail(stream)
         IN  IF Exceeds(Len(buffer) + chunk_length, max_size)
             THEN [err |-> "Data size exceeded limit", buffer |-> buffer, stream |-> rest]
             ELSE IF Len(rest) < chunk_length
             THEN [err |-> "UnexpectedEof", buffer |-> buffer, stream |-> <<>>]
             ELSE LET chunk_buffer == [i \in 1..ChunkSize |->
                                        IF i <= chunk_length THEN rest[i] ELSE 0]
                      after == SubSeq(rest, chunk_length + 1, Len(rest))
                  IN  IF chunk_length < ChunkSize
                      THEN [err |-> "", buffer |-> buffer \o chunk_buffer, stream |-> after]
                      ELSE ReadChunks(max_size, after, buffer \o chunk_buffer)

\* Config::read (wire.rs 26-54): the result and the stream afterwards.
ConfigRead(max_size, stream) ==
    LET r == ReadChunks(max_size, stream, <<>>)
    IN  [result |-> IF r.err # "" THEN Bad(r.err) ELSE from_read(r.buffer),
         stream |-> r.stream]

\* The payloads: an attachment of n bytes, the i-th being i * step modulo 256.
Blob(n, step) == [i \in 1..n |-> (i * step) % 256]
Uid32 == {0, 200, 56789, 123456}
Steps256 == {0, 37}
WireMessages ==
    {Message("Ping", 0, <<>>)}
        \cup {Message("ConfirmUser", uid, <<>>) : uid \in Uid32}
        \cup {Message("Attachment", 0, Blob(n, step)) : n \in 0..MaxData, step \in Steps256}

\* The limits a Config may hold for a message: the default, two small ones, and
\* the sizes around the size of its payload.
Limits(message) ==
    {DefaultMaxSize, 10, 300} \cup {Len(to_vec(message)) + d : d \in {-1, 0}}

\* A writer and a reader, each with its own Config, and a message to write.
InitWire ==
    /\ Start
    /\ durations = [ping_interval |-> MaxDuration, ping_timeout |-> 1]
    /\ parse = NoToken
    /\ \E message \in WireMessages :
        \E w \in Limits(message), r \in Limits(message) :
            wire = [pc |-> "message", message |-> message, write_max |-> w, read_max |-> r,
                    stream |-> <<>>, frame |-> 0, written |-> Bad(""), read |-> Bad("")]

\* The writer writes the message (wire.rs 62-89).
WireWrite ==
    /\ wire.pc = "message"
    /\ LET w == ConfigWrite(wire.write_max, wire.stream, wire.message)
       IN  wire' = [wire EXCEPT !.pc = "written", !.written = w.result,
                                !.stream = w.stream, !.frame = Len(w.stream)]
    /\ UNCHANGED <<serverVars, clientVars, parse>>

\* The writer writes a Ping after it, with the default Config (wire.rs 108-110).
WireWriteNext ==
    /\ wire.pc = "written"
    /\ LET w == ConfigWrite(DefaultMaxSize, wire.stream, Message("Ping", 0, <<>>))
       IN  wire' = [wire EXCEPT !.pc = "next", !.stream = w.stream]
    /\ UNCHANGED <<serverVars, clientVars, parse>>

\* The reader reads one message from the stream (wire.rs 26-54).
WireRead ==
    /\ wire.pc = "next"
    /\ LET r == ConfigRead(wire.read_max, wire.stream)
       IN  wire' = [wire EXCEPT !.pc = "read", !.read = r.result, !.stream = r.stream]
    /\ UNCHANGED <<serverVars, clientVars, parse>>

\* ------------------------------------------------------------------ access token
\* access_token.rs 7: an AccessToken is LENGTH bytes; a string is its UTF-8 bytes.
LENGTH == 32

\* char::to_digit(16) of an ASCII byte, -1 if it is no digit.
to_digit(c) ==
    IF c \in 48..57 THEN c - 48
    ELSE IF c \in 97..102 THEN c - 87
    ELSE IF c \in 65..70 THEN c - 55
    ELSE -1

\* u8::from_str_radix(src, 16) of a string of two bytes: an optional '+' and
\* digits of either case; -1 for Err.
from_str_radix(src) ==
    IF src[1] = 43
    THEN to_digit(src[2])
    ELSE IF to_digit(src[1]) >= 0 /\ to_digit(src[2]) >= 0
    THEN (to_digit(src[1]) * 16 + to_digit(src[2])) % 256
    ELSE -1

\* str::is_char_boundary: index (from 0) is the start or the end of the string or
\* the byte there is not a continuation byte.
is_char_boundary(s, index) ==
    index = 0 \/ index = Len(s) \/ (index < Len(s) /\ s[index + 1] \notin 128..191)

\* access_token.rs 24 for one i: slicing &s[i * 2..][..2] panics off a char
\* boundary, from_str_radix may fail.
Byte(s, i) ==
    IF ~(is_char_boundary(s, i * 2) /\ is_char_boundary(s, i * 2 + 2))
    THEN [r |-> "panic", b |-> 0]
    ELSE LET b == from_str_radix(SubSeq(s, i * 2 + 1, i * 2 + 2))
         IN  IF b < 0 THEN [r |-> "Err", b |-> 0] ELSE [r |-> "Ok", b |-> b]

\* AccessToken::from_str (access_token.rs 17-28): the first i that fails decides.
from_str(s) ==
    IF Len(s) # 2 * LENGTH
    THEN [r |-> "Err", token |-> <<>>]
    ELSE LET failed == {i \in 0..(LENGTH - 1) : Byte(s, i).r # "Ok"}
         IN  IF failed = {}
             THEN [r |-> "Ok", token |-> [i \in 1..LENGTH |-> Byte(s, i - 1).b]]
             ELSE [r |-> Byte(s, CHOOSE i \in failed : \A j \in failed : i <= j).r,
                   token |-> <<>>]

\* One digit of {:02x}.
LowerHex(d) == IF d < 10 THEN 48 + d ELSE 87 + d

\* Display::fmt (access_token.rs 92-98): two digits for every byte.
fmt(t) == [k \in 1..(2 * Len(t)) |->
            IF k % 2 = 1 THEN LowerHex(t[(k + 1) \div 2] \div 16)
            ELSE LowerHex(t[k \div 2] % 16)]

\* The tokens: LENGTH bytes, the i-th being 171 + i * step modulo 256.
TokenSteps == {0, 7, 85}
Tokens32 == {[i \in 1..LENGTH |-> (171 + i * step) % 256] : step \in TokenSteps}

\* The characters put into a string: 0 f F g + - space, and a character of two
\* bytes.
Chars == {<<48>>, <<102>>, <<70>>, <<103>>, <<43>>, <<45>>, <<32>>, <<195, 169>>}

\* The strings: a token as it is formatted, with one character cut off or added
\* or with one character put over the bytes at a position.
Strings ==
    LET hex == {fmt(t) : t \in Tokens32}
    IN  hex \cup {SubSeq(h, 1, 2 * LENGTH - 1) : h \in hex}
            \cup {h \o c : h \in hex, c \in Chars}
            \cup UNION {{SubSeq(h, 1, k - 1) \o c \o SubSeq(h, k + Len(c), Len(h)) :
                            k \in 1..(2 * LENGTH + 1 - Len(c))} : h \in hex, c \in Chars}

\* A string to parse, or a token to format and parse.
InitToken ==
    /\ Start
    /\ durations = [ping_interval |-> MaxDuration, ping_timeout |-> 1]
    /\ wire = NoWire
    /\ \/ \E s \in Strings :
            parse = [pc |-> "str", s |-> s, t |-> <<>>, result |-> [r |-> "", token |-> <<>>]]
       \/ \E t \in Tokens32 :
            parse = [pc |-> "token", s |-> <<>>, t |-> t, result |-> [r |-> "", token |-> <<>>]]

\* The token is formatted (access_token.rs 92-98).
Format ==
    /\ parse.pc = "token"
    /\ parse' = [parse EXCEPT !.pc = "str", !.s = fmt(parse.t)]
    /\ UNCHANGED <<serverVars, clientVars, wire>>

\* The string is parsed (access_token.rs 17-28).
Parse ==
    /\ parse.pc = "str"
    /\ parse' = [parse EXCEPT !.pc = "parsed", !.result = from_str(parse.s)]
    /\ UNCHANGED <<serverVars, clientVars, wire>>

\* ------------------------------------------------------------------ version
\* Version::is_compatible (version.rs 19-21)
is_compatible(self, other) == self.major = other.major

\* write_u16 and read_u16: two bytes, the high one first.
U16(v) == <<(v \div 256) % 256, v % 256>>
FromU16(stream, p) == stream[p] * 256 + stream[p + 1]

\* Version::write (version.rs 46-52): the stream afterwards.
VersionWrite(self, stream) == stream \o U16(self.major) \o U16(self.minor)

\* Version::read (version.rs 29-36): the result and the stream afterwards.
VersionRead(stream) ==
    IF Len(stream) < 4
    THEN [ok |-> FALSE, version |-> [major |-> 0, minor |-> 0], stream |-> <<>>]
    ELSE [ok |-> TRUE,
          version |-> [major |-> FromU16(stream, 1), minor |-> FromU16(stream, 3)],
          stream |-> SubSeq(stream, 5, Len(stream))]

\* The versions: every pair of these u16 values.
Parts == {0, 1, 2, 255, 256, 65535}
AllVersions == [major : Parts, minor : Parts]

\* Two versions: the first is written, then the second, the first is read back
\* and compared with the second.
InitVersion ==
    /\ Start
    /\ durations = [ping_interval |-> MaxDuration, ping_timeout |-> 1]
    /\ parse = NoToken
    /\ \E a \in AllVersions, b \in AllVersions :
        wire = [pc |-> "versions", a |-> a, b |-> b, stream |-> <<>>,
                read |-> VersionRead(<<>>), compatible |-> FALSE]

\* Both versions are written (version.rs 46-52).
WriteVersions ==
    /\ wire.pc = "versions"
    /\ wire' = [wire EXCEPT !.pc = "written",
                            !.stream = VersionWrite(wire.b, VersionWrite(wire.a, wire.stream))]
    /\ UNCHANGED <<serverVars, clientVars, parse>>

\* One version is read (version.rs 29-36).
ReadVersion ==
    /\ wire.pc = "written"
    /\ LET r == VersionRead(wire.stream)
       IN  wire' = [wire EXCEPT !.pc = "read", !.read = r, !.stream = r.stream]
    /\ UNCHANGED <<serverVars, clientVars, parse>>

\* The version read is compared with the other (version.rs 19-21).
Compare ==
    /\ wire.pc = "read"
    /\ wire' = [wire EXCEPT !.pc = "compared",
                            !.compatible = is_compatible(wire.read.version, wire.b)]
    /\ UNCHANGED <<serverVars, clientVars, parse>>

\* ------------------------------------------------------------------ the writer mutex of the client
\* The encoding of the unit variant ClientMessage::Pong: its name as a string.
PongBytes == FixStr(<<80, 111, 110, 103>>)

\* The sizes of the encoded commands of the caller: a short one, and one that
\* fills a chunk exactly and is followed by the zero length.
CommandSizes == {Len(PongBytes) + 11, ChunkSize}

\* The write calls Config::write makes for data of a size (wire.rs 76-84): a length
\* and a chunk per chunk, and a zero length after a full last chunk.
WriteCalls(size) ==
    2 * ((size + ChunkSize - 1) \div ChunkSize) + (IF size % ChunkSize = 0 THEN 1 ELSE 0)

\* Mutant: the mutex is granted whoever holds it.
MutexIgnored(guard) == TRUE

\* stream_write.lock().await completes only while no guard is alive
\* (client.rs 79, 121).
MutexFree(guard) == guard = "none"

\* The caller, the reading task and the stream between them: no frame written, no
\* message received, the mutex free.
InitMutex ==
    /\ Start
    /\ durations = [ping_interval |-> MaxDuration, ping_timeout |-> 1]
    /\ parse = NoToken
    /\ wire = [pc |-> "mutex", guard |-> "none", waiters |-> <<>>, stream |-> <<>>,
               caller |-> [pc |-> "idle", left |-> 0, frame |-> 0],
               task |-> [pc |-> "select", left |-> 0, frame |-> 0, msg |-> "None"],
               inbound |-> <<>>, buf |-> <<>>, frames |-> 0, written |-> 0,
               answered |-> 0, pings |-> 0, pushed |-> 0, broken |-> FALSE]

\* tokio's Mutex is fair: the guard goes to the longest waiting task.
Acquire(who) ==
    /\ wire.waiters # <<>>
    /\ Head(wire.waiters) = who
    /\ MutexFree(wire.guard)

\* join_group is called (client.rs 118-121): the caller asks for the mutex.
CallerRequest ==
    /\ wire.pc = "mutex"
    /\ wire.caller.pc = "idle"
    /\ wire.written < MaxCalls
    /\ \E size \in CommandSizes :
        wire' = [wire EXCEPT !.caller = [pc |-> "lock", left |-> WriteCalls(size),
                                         frame |-> wire.frames + 1],
                             !.frames = @ + 1,
                             !.waiters = Append(@, "caller")]
    /\ UNCHANGED <<serverVars, clientVars, parse>>

\* self.stream_write.lock().await completes (client.rs 121).
CallerAcquire ==
    /\ wire.pc = "mutex"
    /\ wire.caller.pc = "lock"
    /\ Acquire("caller")
    /\ wire' = [wire EXCEPT !.guard = "caller", !.waiters = Tail(@), !.caller.pc = "write"]
    /\ UNCHANGED <<serverVars, clientVars, parse>>

\* One write call of Config::write for the command (wire.rs 76-84).
CallerWrite ==
    /\ wire.pc = "mutex"
    /\ wire.caller.pc = "write"
    /\ ~wire.broken
    /\ wire.caller.left > 0
    /\ wire' = [wire EXCEPT !.stream = Append(@, [by |-> "caller", frame |-> wire.caller.frame]),
                            !.caller.left = @ - 1]
    /\ UNCHANGED <<serverVars, clientVars, parse>>

\* The flush ends Config::write (wire.rs 86-88); the guard, a temporary of the
\* statement, is dropped and the caller waits for the reply (client.rs 123-126).
CallerFlush ==
    /\ wire.pc = "mutex"
    /\ wire.caller.pc = "write"
    /\ ~wire.broken
    /\ wire.caller.left = 0
    /\ wire' = [wire EXCEPT !.guard = "none", !.caller.pc = "recv", !.written = @ + 1]
    /\ UNCHANGED <<serverVars, clientVars, parse>>

\* A write call fails: `?` returns the error and drops the guard (client.rs 124).
CallerWriteFails ==
    /\ wire.pc = "mutex"
    /\ wire.caller.pc = "write"
    /\ wire.broken
    /\ wire' = [wire EXCEPT !.guard = "none", !.caller.pc = "idle", !.written = MaxCalls]
    /\ UNCHANGED <<serverVars, clientVars, parse>>

\* self.receiver.recv() of join_group (client.rs 126-132): an update is kept for
\* later, the reply or an error ends the call; None ends it with BrokenPipe.
CallerRecv ==
    /\ wire.pc = "mutex"
    /\ wire.caller.pc = "recv"
    /\ IF wire.buf # <<>>
       THEN wire' = [wire EXCEPT !.buf = Tail(@),
                                 !.caller.pc = IF Head(wire.buf) = "Update" THEN "recv"
                                               ELSE "idle"]
       ELSE /\ wire.task.pc = "returned"
            /\ wire' = [wire EXCEPT !.caller.pc = "idle"]
    /\ UNCHANGED <<serverVars, clientVars, parse>>

\* config.read of the reading task yields a message (client.rs 71-77): for a Ping
\* the task asks for the mutex, any other message goes to the caller.
TaskRead ==
    /\ wire.pc = "mutex"
    /\ wire.task.pc = "select"
    /\ wire.inbound # <<>>
    /\ IF Head(wire.inbound) = "Ping"
       THEN wire' = [wire EXCEPT !.inbound = Tail(@),
                                 !.task = [pc |-> "lock", left |-> WriteCalls(Len(PongBytes)),
                                           frame |-> wire.frames + 1, msg |-> "None"],
                                 !.frames = @ + 1,
                                 !.waiters = Append(@, "reader")]
       ELSE wire' = [wire EXCEPT !.inbound = Tail(@),
                                 !.task.pc = "send", !.task.msg = Head(wire.inbound)]
    /\ UNCHANGED <<serverVars, clientVars, parse>>

\* config.read fails or the timeout elapses (client.rs 71-75, 98-101).
TaskReadFails ==
    /\ wire.pc = "mutex"
    /\ wire.task.pc = "select"
    /\ wire.broken
    /\ wire' = [wire EXCEPT !.task.pc = "send_err"]
    /\ UNCHANGED <<serverVars, clientVars, parse>>

\* stream_write.lock().await of the reading task completes (client.rs 79).
TaskAcquire ==
    /\ wire.pc = "mutex"
    /\ wire.task.pc = "lock"
    /\ Acquire("reader")
    /\ wire' = [wire EXCEPT !.guard = "reader", !.waiters = Tail(@), !.task.pc = "write"]
    /\ UNCHANGED <<serverVars, clientVars, parse>>

\* One write call of Config::write for the Pong (client.rs 81-82).
TaskWrite ==
    /\ wire.pc = "mutex"
    /\ wire.task.pc = "write"
    /\ ~wire.broken
    /\ wire.task.left > 0
    /\ wire' = [wire EXCEPT !.stream = Append(@, [by |-> "reader", frame |-> wire.task.frame]),
                            !.task.left = @ - 1]
    /\ UNCHANGED <<serverVars, clientVars, parse>>

\* The flush ends the write of the Pong; `continue` drops the guard
\* (client.rs 83-84).
TaskFlush ==
    /\ wire.pc = "mutex"
    /\ wire.task.pc = "write"
    /\ ~wire.broken
    /\ wire.task.left = 0
    /\ wire' = [wire EXCEPT !.guard = "none", !.task.pc = "select"]
    /\ UNCHANGED <<serverVars, clientVars, parse>>

\* The write of the Pong fails: the guard is dropped before the error is sent
\* (client.rs 85-88).
TaskWriteFails ==
    /\ wire.pc = "mutex"
    /\ wire.task.pc = "write"
    /\ wire.broken
    /\ wire' = [wire EXCEPT !.guard = "none", !.task.pc = "send_err"]
    /\ UNCHANGED <<serverVars, clientVars, parse>>

\* sender.send(Ok(message)) completes when the channel has room (client.rs 93-97).
TaskSend ==
    /\ wire.pc = "mutex"
    /\ wire.task.pc = "send"
    /\ Len(wire.buf) < IncomingBuffer
    /\ wire' = [wire EXCEPT !.buf = Append(@, wire.task.msg),
                            !.task.pc = "select", !.task.msg = "None"]
    /\ UNCHANGED <<serverVars, clientVars, parse>>

\* sender.send(Err(err)) completes and the task returns (client.rs 90-91, 98-101).
TaskSendErr ==
    /\ wire.pc = "mutex"
    /\ wire.task.pc = "send_err"
    /\ Len(wire.buf) < IncomingBuffer
    /\ wire' = [wire EXCEPT !.buf = Append(@, "Err"), !.task.pc = "returned"]
    /\ UNCHANGED <<serverVars, clientVars, parse>>

\* The server writes a Ping (server.rs 682-693).
ServerPing ==
    /\ wire.pc = "mutex"
    /\ ~wire.broken
    /\ wire.pings < MaxPongs
    /\ wire' = [wire EXCEPT !.inbound = Append(@, "Ping"), !.pings = @ + 1]
    /\ UNCHANGED <<serverVars, clientVars, parse>>

\* The server has read a whole command and writes its reply (server.rs 324-326).
ServerReply ==
    /\ wire.pc = "mutex"
    /\ ~wire.broken
    /\ wire.answered < wire.written
    /\ wire' = [wire EXCEPT !.inbound = Append(@, "Reply"), !.answered = @ + 1]
    /\ UNCHANGED <<serverVars, clientVars, parse>>

\* The server writes an event of a group (server.rs 638-680).
ServerUpdate ==
    /\ wire.pc = "mutex"
    /\ ~wire.broken
    /\ wire.pushed < IncomingBuffer + 1
    /\ wire' = [wire EXCEPT !.inbound = Append(@, "Update"), !.pushed = @ + 1]
    /\ UNCHANGED <<serverVars, clientVars, parse>>

\* The connection is lost: what was received can still be read, every later read
\* and write fails.
ConnectionLost ==
    /\ wire.pc = "mutex"
    /\ ~wire.broken
    /\ wire' = [wire EXCEPT !.broken = TRUE]
    /\ UNCHANGED <<serverVars, clientVars, parse>>

\* ------------------------------------------------------------------ specification
\* The steps every connection task, reader subtask and cleanup takes by itself
\* after the handshake.
Steps ==
    \/ \E c \in Conns : Subscribe(c)
    \/ \E c \in Conns : JoinSnapshot(c)
    \/ \E c \in Conns : RecvUpdate(c)
    \/ \E c \in Conns : RecvGlobal(c)
    \/ \E c \in Conns : GlobalSnapshot(c)
    \/ \E h \in DOMAIN relays : Relay(h)
    \/ \E c \in Conns : CleanupAbort(c)
    \/ \E c \in Conns : CleanupRetain(c)

\* The same, with peers that present the current version and a known token.
Internal ==
    \/ \E c \in Conns : Connect(c, {CURRENT}, access_tokens)
    \/ Steps

\* The peers may still send a frame.
Budget == ncmds < MaxCmds

\* Peers that send every command but attachments, about one group name.
NextUsers ==
    \/ Internal
    \/ \E c \in Conns : Budget /\ JoinGroup(c, {"lobby"})
    \/ \E c \in Conns : Budget /\ LeaveGroup(c, {0})
    \/ \E c \in Conns : Budget /\ InitUser(c, {0}, BOOLEAN)
    \/ \E c \in Conns : Budget /\ DestroyUser(c, {0}, Uids)
    \/ \E c \in Conns : Budget /\ Rename(c, {0}, {0})
    \/ \E c \in Conns : Budget /\ SendMessage(c, {0}, {0}, {<<>>})
    \/ \E c \in Conns : Budget /\ Shutdown(c)

SpecUsers == Init /\ [][NextUsers]_vars

\* Peers that join and leave groups of two names and create users in them.
NextGroups ==
    \/ Internal
    \/ \E c \in Conns : Budget /\ JoinGroup(c, GroupNames)
    \/ \E c \in Conns : Budget /\ LeaveGroup(c, Gids)
    \/ \E c \in Conns : Budget /\ InitUser(c, Gids, {TRUE})
    \/ \E c \in Conns : Budget /\ Shutdown(c)

SpecGroups == Init /\ [][NextGroups]_vars

\* Connection 1 sends every command that broadcasts an event, to groups of two
\* names; every connection may join them.
NextOrder ==
    \/ Internal
    \/ \E c \in Conns : Budget /\ JoinGroup(c, GroupNames)
    \/ Budget /\ InitUser(1, Gids, {TRUE})
    \/ Budget /\ DestroyUser(1, Gids, {0})
    \/ Budget /\ Rename(1, Gids, {0})
    \/ Budget /\ SendMessage(1, Gids, {0}, {<<>>})

SpecOrder == Init /\ [][NextOrder]_vars

\* The peers that exchange attachments may still send a frame.
BudgetAttach == ncmds < MaxFrames

\* Connection 1 creates a user and sends messages with two attachments; every
\* connection may join the group and download or ignore attachments.
NextAttach ==
    \/ Internal
    \/ \E c \in Conns : BudgetAttach /\ JoinGroup(c, {"lobby"})
    \/ BudgetAttach /\ InitUser(1, {0}, {TRUE})
    \/ BudgetAttach /\ SendMessage(1, {0}, {0}, {<<<<"DE", "AD">>, <<"BE">>>>})
    \/ \E c \in Conns : BudgetAttach /\ DownloadAttachment(c, AttIds)
    \/ \E c \in Conns : BudgetAttach /\ IgnoreAttachment(c, AttIds)

SpecAttach == Init /\ [][NextAttach]_vars

\* Peers that present any version and any token, and then join a group, create
\* users in it and leave it.
NextHandshake ==
    \/ \E c \in Conns : Connect(c, Versions, Tokens)
    \/ Steps
    \/ \E c \in Conns : Budget /\ JoinGroup(c, {"lobby"})
    \/ \E c \in Conns : Budget /\ LeaveGroup(c, {0})
    \/ \E c \in Conns : Budget /\ InitUser(c, {0}, {TRUE})
    \/ \E c \in Conns : Budget /\ Shutdown(c)

SpecHandshake == Init /\ [][NextHandshake]_vars

\* The peers may still send a frame while the clock runs.
BudgetPing == ncmds < MaxPongs

\* Peers that answer a Ping or not, under any configuration of the two durations;
\* the peer of connection 1 may ask for a group. No group update is sent and no
\* existing group is joined, so no reader subtask has a step.
NextPing ==
    \/ \E c \in Conns : Connect(c, {CURRENT}, access_tokens)
    \/ \E c \in Conns : Subscribe(c)
    \/ \E c \in Conns : RecvGlobal(c)
    \/ \E c \in Conns : GlobalSnapshot(c)
    \/ \E c \in Conns : CleanupAbort(c)
    \/ \E c \in Conns : CleanupRetain(c)
    \/ Tick
    \/ \E c \in Conns : Ping(c)
    \/ \E c \in Conns : PongTimeout(c)
    \/ \E c \in Conns : BudgetPing /\ Pong(c)
    \/ BudgetPing /\ JoinGroup(1, {"lobby"})

SpecPing == InitPing /\ [][NextPing]_vars

\* The caller may still make a call.
BudgetCalls == Len(returned) < MaxCalls /\ Len(stream_write) < MaxCalls

\* The client driver against a server that sends updates, Pings and the replies to
\* the requests, with a caller that makes requests, reads updates, drops the future
\* of read_update and shuts the client down.
NextClient ==
    \/ ServerSends
    \/ ReaderRead
    \/ ReaderFails
    \/ ReaderClosed
    \/ ReaderPong
    \/ ReaderPongFails
    \/ ReaderSend
    \/ \E call \in Requests : BudgetCalls /\ Request(call)
    \/ RequestRecv
    \/ BudgetCalls /\ ReadUpdate
    \/ CancelRead
    \/ ReadRecv
    \/ ShutdownClose
    \/ ShutdownWrite

SpecClient == Init /\ [][NextClient]_vars

\* The reading task is a spawned task that the runtime runs whenever it can
\* proceed; select! chooses at random among its ready branches, so a branch that
\* is ready again and again is taken; shutdown runs to its end once called.
SpecClientFair ==
    /\ SpecClient
    /\ WF_vars(ReaderRead \/ ReaderFails)
    /\ SF_vars(ReaderClosed)
    /\ WF_vars(ReaderPong \/ ReaderPongFails)
    /\ WF_vars(ReaderSend)
    /\ WF_vars(ShutdownWrite)

\* A message is written, followed by a Ping, and read back.
NextWire ==
    \/ WireWrite
    \/ WireWriteNext
    \/ WireRead

SpecWire == InitWire /\ [][NextWire]_vars

\* Strings are parsed; tokens are formatted and parsed.
NextToken ==
    \/ Format
    \/ Parse

SpecToken == InitToken /\ [][NextToken]_vars

\* Peers that join one group and create users in it, and whose sockets may take
\* a write at once or later.
NextLock ==
    \/ Internal
    \/ \E c \in Conns : Budget /\ JoinGroup(c, {"lobby"})
    \/ \E c \in Conns : Budget /\ JoinGroupPending(c, {"lobby"})
    \/ \E c \in Conns : ConfirmGroupWritten(c)
    \/ \E c \in Conns : Budget /\ InitUser(c, {0}, {TRUE})
    \/ \E c \in Conns : Budget /\ InitUserPending(c, {0})
    \/ \E c \in Conns : ConfirmUserWritten(c, BOOLEAN)
    \/ \E c \in Conns : Budget /\ LeaveGroup(c, {0})

SpecLock == Init /\ [][NextLock]_vars

\* Versions are written, read and compared.
NextVersion ==
    \/ WriteVersions
    \/ ReadVersion
    \/ Compare

SpecVersion == InitVersion /\ [][NextVersion]_vars

\* A caller that sends commands and waits for their replies, the reading task
\* that answers Pings, and a server that pings, replies and sends events.
NextMutex ==
    \/ CallerRequest
    \/ CallerAcquire
    \/ CallerWrite
    \/ CallerFlush
    \/ CallerWriteFails
    \/ CallerRecv
    \/ TaskRead
    \/ TaskReadFails
    \/ TaskAcquire
    \/ TaskWrite
    \/ TaskFlush
    \/ TaskWriteFails
    \/ TaskSend
    \/ TaskSendErr
    \/ ServerPing
    \/ ServerReply
    \/ ServerUpdate
    \/ ConnectionLost

SpecMutex == InitMutex /\ [][NextMutex]_vars

\* The reading task is a spawned task and the caller's future is awaited: the
\* runtime polls each whenever it can proceed. The server answers every command
\* it has read while the connection is up.
SpecMutexFair ==
    /\ SpecMutex
    /\ WF_vars(CallerAcquire)
    /\ WF_vars(CallerWrite \/ CallerFlush \/ CallerWriteFails)
    /\ WF_vars(CallerRecv)
    /\ WF_vars(TaskRead \/ TaskReadFails)
    /\ WF_vars(TaskAcquire)
    /\ WF_vars(TaskWrite \/ TaskFlush \/ TaskWriteFails)
    /\ WF_vars(TaskSend \/ TaskSendErr)
    /\ WF_vars(ServerReply)

\* ------------------------------------------------------------------ claims
\* The precondition of DestroyUser, Rename and SendMessage: the group exists, the
\* user exists in it and the connection owns the user.
OwnsUser(c, gid, uid) ==
    /\ SlabHas(groups, gid)
    /\ SlabHas(SlabGet(groups, gid).users, uid)
    /\ SlabGet(SlabGet(groups, gid).users, uid).owner = c

\* The group updates a step appends to the channel ch.
Sent(ch) == SubSeq(chans'[ch].log, Len(chans[ch].log) + 1, Len(chans'[ch].log))

UsersOwnedBy(c) ==
    {gu \in Gids \X Uids : OwnsUser(c, gu[1], gu[2])}

\* C2: once the cleanup of a connection has completed, no group of the registry
\* holds a user the connection owns; and the step that completes the cleanup sends,
\* for every user it removes, a DestroyUser for its uid on the channel of the
\* user's group (where it is stored if the channel has a receiver).
C2_CleanupRemovesUsers ==
    /\ [](\A c \in Conns : pc[c] = "done" => UsersOwnedBy(c) = {})
    /\ [][\A c \in Conns :
            (pc[c] = "cleanup" /\ pc'[c] = "done")
            => /\ ntag'[c] = ntag[c] + Cardinality(UsersOwnedBy(c))
               /\ \A gu \in UsersOwnedBy(c) :
                    LET ch == SlabGet(groups, gu[1]).ch
                    IN  ReceiverCount(relays, ch) > 0
                        => \E i \in 1..Len(Sent(ch)) :
                              /\ Sent(ch)[i].kind = "DestroyUser"
                              /\ Sent(ch)[i].uid = gu[2]
                              /\ Sent(ch)[i].by = c
      ]_vars

\* The cleanup of a connection has completed and has sent a DestroyUser for its
\* user to a group that is still in the registry (four frames do not suffice for
\* the connection to have left the group itself).
C2_Witness ==
    \E c \in Conns, gid \in SlabKeys(groups) :
        /\ pc[c] = "done"
        /\ ncmds <= 4
        /\ \E i \in 1..Len(chans[SlabGet(groups, gid).ch].log) :
              LET u == chans[SlabGet(groups, gid).ch].log[i]
              IN  u.kind = "DestroyUser" /\ u.by = c

\* The connection's task is in its loop (at select! or inside a handler).
InLoop(c) == pc[c] \in {"select", "join_snap", "global_snap"}

\* The positions of the Message updates stored in channel ch.
Messages(ch) == {k \in 1..Len(chans[ch].log) : chans[ch].log[k].kind = "Message"}

\* The positions in what was written to c of the Message event made from update u
\* of group gid.
WrittenAt(c, gid, u) ==
    {i \in 1..Len(out[c]) :
        /\ out[c][i].t = "Message" /\ out[c][i].gid = gid /\ out[c][i].uid = u.uid
        /\ out[c][i].text = u.text /\ out[c][i].by = u.by /\ out[c][i].tag = u.tag}

\* The positions of update u in update_receiver of c.
QueuedAt(c, u) ==
    {i \in 1..Len(upd[c]) : upd[c][i].ok /\ upd[c][i].update = u}

\* The reader subtasks of the memberships connection c holds.
Subscriptions(c) ==
    {h \in DOMAIN relays : relays[h].conn = c /\ relays[h].alive /\ h \in Handles(c)}

\* Every Message event written to a connection was made from a Message update that
\* was sent while the connection held a membership for the group, and is written once.
OnlySubscribersOnce ==
    \A c \in Conns : \A i \in 1..Len(out[c]) :
        out[c][i].t = "Message"
        => /\ \E ch \in 1..Len(chans) : \E k \in Messages(ch) :
                /\ chans[ch].log[k].by = out[c][i].by
                /\ chans[ch].log[k].tag = out[c][i].tag
                /\ c \in chans[ch].log[k].subs
           /\ \A j \in 1..Len(out[c]) :
                (out[c][j].t = "Message" /\ out[c][j].by = out[c][i].by
                 /\ out[c][j].tag = out[c][i].tag) => j = i

\* C3 (amended): a Message update sent on the channel of gid is written as a
\* Message{gid,uid,message} event exactly once to every connection that held a
\* membership for gid when it was sent and has since neither left gid nor returned
\* from its loop: while the subscription lasts the update is in exactly one place
\* (not yet taken by the reader subtask, in update_receiver, or written), and it
\* is written once everything pending has been taken; the sender is among these
\* connections; no connection is written a Message that was sent while it held no
\* membership for the group, and none is written one twice.
C3_MessageOnce ==
    /\ OnlySubscribersOnce
    /\ \A c \in Conns : \A h \in Subscriptions(c) :
        InLoop(c)
        => \A k \in Messages(relays[h].ch) :
              LET u == chans[relays[h].ch].log[k]
                  written == Cardinality(WrittenAt(c, relays[h].gid, u))
                  queued == Cardinality(QueuedAt(c, u))
                  pending == IF k > relays[h].next THEN 1 ELSE 0
              IN  k > relays[h].start
                  => /\ c \in u.subs
                     /\ written + queued + pending = 1
                     /\ (relays[h].next = Len(chans[relays[h].ch].log) /\ upd[c] = <<>>)
                        => written = 1

\* The sender and another subscriber have both been written the Message.
C3_Witness ==
    \E c, d \in Conns : \E ch \in 1..Len(chans) : \E k \in Messages(ch) :
        LET u == chans[ch].log[k]
        IN  /\ c # d
            /\ u.by = c
            /\ u.subs = {c, d}
            /\ InLoop(c) /\ InLoop(d)
            /\ WrittenAt(c, 0, u) # {}
            /\ WrittenAt(d, 0, u) # {}

\* C3 as stated: every connection that held a membership for the group when a
\* Message was sent, and that is still in its loop with nothing pending, has been
\* written the Message exactly once.
C3_AsStated ==
    \A ch \in 1..Len(chans) : \A k \in Messages(ch) : \A c \in chans[ch].log[k].subs :
        (/\ pc[c] = "select"
         /\ upd[c] = <<>>
         /\ \A h \in DOMAIN relays :
               (relays[h].conn = c /\ relays[h].alive)
               => relays[h].next = Len(chans[relays[h].ch].log))
        => \E gid \in Gids : Cardinality(WrittenAt(c, gid, chans[ch].log[k])) = 1

\* The positions in what was written to c of the events made from group updates
\* that the task of connection by sent.
EventsBy(c, by) == {i \in 1..Len(out[c]) : out[c][i].by = by}

EventAt(c, u) == {i \in 1..Len(out[c]) : out[c][i].by = u.by /\ out[c][i].tag = u.tag}

\* The group whose users connection c is about to copy for a JoinGroup.
Joining(c) == cur[c].gid

\* What a step appends to the socket of c.
Written(c) == SubSeq(out'[c], Len(out[c]) + 1, Len(out'[c]))

\* Between subscribing and copying the users the task holds the write lock, and
\* nothing has been sent on the group's channel since the receiver was created.
SnapshotAtSubscribe ==
    \A c \in Conns :
        pc[c] = "join_snap"
        => LET r == relays[mem[c][Joining(c)].handle]
           IN  /\ lock = c
               /\ r.alive /\ r.conn = c /\ r.ch = SlabGet(groups, Joining(c)).ch
               /\ r.start = Len(chans[r.ch].log)
               /\ r.next = r.start

\* Every update sent after the receiver of a live subscription was created is in
\* exactly one place (channel, update_receiver, socket), was sent while the
\* connection held its membership, and is written after a ConfirmGroup of the group.
AfterSnapshotDelivered ==
    \A c \in Conns : \A h \in Subscriptions(c) :
        (InLoop(c) /\ pc[c] # "join_snap")
        => \A k \in (relays[h].start + 1)..Len(chans[relays[h].ch].log) :
              LET u == chans[relays[h].ch].log[k]
                  pending == IF k > relays[h].next THEN 1 ELSE 0
              IN  /\ c \in u.subs
                  /\ Cardinality(EventAt(c, u)) + Cardinality(QueuedAt(c, u)) + pending = 1
                  /\ \A i \in EventAt(c, u) :
                        /\ out[c][i].gid = relays[h].gid
                        /\ \E n \in 1..(i - 1) : out[c][n] = ConfirmGroupMsg(relays[h].gid)

\* No event is written from an update that was sent while the connection held no
\* membership for the group.
NothingFromBefore ==
    \A c \in Conns : \A i \in 1..Len(out[c]) :
        out[c][i].by # 0
        => \E ch \in 1..Len(chans) : \E k \in 1..Len(chans[ch].log) :
              /\ chans[ch].log[k].by = out[c][i].by
              /\ chans[ch].log[k].tag = out[c][i].tag
              /\ c \in chans[ch].log[k].subs

\* C5: a JoinGroup of an existing group subscribes and copies the users under one
\* hold of the write lock, with no update sent in between; the step that writes
\* ConfirmGroup{gid} writes before it one InitUser{gid,uid,name} for exactly every
\* user the group has at that instant; every update sent after that instant reaches
\* the connection through the subscription, after the ConfirmGroup, and no update
\* sent before the connection held the membership is written to it.
C5_JoinSnapshotAtomic ==
    /\ [](SnapshotAtSubscribe /\ AfterSnapshotDelivered /\ NothingFromBefore)
    /\ [][\A c \in Conns :
            (pc[c] = "join_snap" /\ pc'[c] # "join_snap")
            => LET gid == Joining(c)
                   users == SlabGet(groups, gid).users
                   w == Written(c)
               IN  /\ Len(w) = Cardinality(SlabKeys(users)) + 1
                   /\ w[Len(w)] = ConfirmGroupMsg(gid)
                   /\ \A uid \in SlabKeys(users) :
                        \E i \in 1..(Len(w) - 1) :
                            w[i] = InitUserMsg(gid, uid, SlabGet(users, uid).name)
                   /\ groups' = groups
                   /\ lock' = 0
      ]_vars

\* A connection joined a group that had a user: it was written the user's InitUser,
\* then ConfirmGroup, and later an event sent after the snapshot.
C5_Witness ==
    \E c \in Conns : \E i, j \in 1..Len(out[c]) :
        /\ InLoop(c)
        /\ i + 1 < j
        /\ out[c][i].t = "InitUser" /\ out[c][i].by = 0
        /\ out[c][i + 1] = ConfirmGroupMsg(out[c][i].gid)
        /\ out[c][j].by # 0 /\ out[c][j].by # c /\ out[c][j].gid = out[c][i].gid

\* C6: on every connection, a message that mentions a gid (ConfirmGroup, InitUser,
\* DestroyUser, Rename, Message) is written only after an InitGroup of that gid, with
\* no DestroyGroup of the gid written in between.
C6_InitGroupFirst ==
    \A c \in Conns : \A i \in 1..Len(out[c]) :
        (out[c][i].gid >= 0 /\ out[c][i].t \notin {"InitGroup", "DestroyGroup"})
        => \E n \in 1..(i - 1) :
              /\ out[c][n].t = "InitGroup"
              /\ out[c][n].gid = out[c][i].gid
              /\ \A m \in (n + 1)..(i - 1) :
                    ~(out[c][m].t = "DestroyGroup" /\ out[c][m].gid = out[c][i].gid)

\* The gids of the groups of the registry that are named name.
Named(name) == {gid \in SlabKeys(groups) : SlabGet(groups, gid).name = name}

\* What a step appends to the global channel.
SentGlobal == SubSeq(glob', Len(glob) + 1, Len(glob'))

\* After the step connection c holds a membership for gid whose reader subtask is
\* subscribed to the channel of the group gid.
SubscribedAfter(c, gid) ==
    /\ mem'[c][gid] # NoMem
    /\ relays'[mem'[c][gid].handle].alive
    /\ relays'[mem'[c][gid].handle].conn = c
    /\ relays'[mem'[c][gid].handle].ch = SlabGet(groups', gid).ch

LiveSubtasks(c) == {h \in DOMAIN relays : relays[h].conn = c /\ relays[h].alive}

\* C8: once the cleanup of a connection has completed, none of the reader subtasks
\* it spawned still holds a receiver of a group's channel; and when the cleanup
\* completes, every group that stays in the registry has a reader subtask of
\* another connection subscribed, and a DestroyGroup{gid} is sent on the global
\* channel for every group the cleanup removes.
C8_CleanupUnsubscribes ==
    /\ [](\A c \in Conns : pc[c] = "done" => LiveSubtasks(c) = {})
    /\ [][\A c \in Conns :
            (pc[c] = "cleanup" /\ pc'[c] = "done")
            => /\ \A gid \in SlabKeys(groups') :
                    \E d \in Conns \ {c} : \E h \in LiveSubtasks(d) :
                        relays[h].ch = SlabGet(groups', gid).ch
               /\ \A gid \in SlabKeys(groups) \ SlabKeys(groups') :
                    GlobalReceivers # {}
                    => \E i \in 1..Len(SentGlobal) :
                          SentGlobal[i] = GlobalUpdate(gid, "DestroyGroup", "")
      ]_vars

\* The groups a step removes from the registry.
Removed == {gid \in SlabKeys(groups) :
              ~SlabHas(groups', gid) \/ SlabGet(groups', gid).ch # SlabGet(groups, gid).ch}

\* C9: no step removes a group from the registry, or sends DestroyGroup for it,
\* while a connection that is still in its loop after the step holds a membership
\* for the group.
C9_NoRemovalWhileMember ==
    [][\A gid \in Gids :
        (\/ gid \in Removed
         \/ \E i \in 1..Len(SentGlobal) : SentGlobal[i] = GlobalUpdate(gid, "DestroyGroup", ""))
        => \A d \in Conns :
              ~(pc'[d] \in {"select", "join_snap", "global_snap"} /\ mem'[d][gid] # NoMem)
      ]_vars

\* A group named name was created with gid and later destroyed, as the global
\* channel recorded it.
WasDestroyed(name, gid) ==
    \E i, j \in 1..Len(glob) :
        /\ i < j
        /\ glob[i] = GlobalUpdate(gid, "InitGroup", name)
        /\ glob[j] = GlobalUpdate(gid, "DestroyGroup", "")

\* C10 (amended): after a group has been destroyed, a later JoinGroup with the
\* same name creates a new, empty group under the key the slab assigns, which is
\* the most recently vacated one: when that is the gid of the destroyed group, the
\* new group is announced and confirmed with the same gid.
C10_GidReused ==
    [][\A c \in Conns, name \in GroupNames, gid \in Gids :
        (/\ JoinGroup(c, {name})
         /\ Named(name) = {}
         /\ WasDestroyed(name, gid)
         /\ groups.free # <<>> /\ Head(groups.free) = gid
         /\ mem[c][gid] = NoMem)
        => /\ Named(name)' = {gid}
           /\ SlabGet(groups', gid).users = SlabNew
           /\ SlabGet(groups', gid).ch = Len(chans) + 1
           /\ SentGlobal = <<GlobalUpdate(gid, "InitGroup", name)>>
           /\ Written(c) = <<ConfirmGroupMsg(gid)>>
      ]_vars

\* A connection was confirmed a gid, saw the group destroyed, and was confirmed
\* the same gid again for the same name.
C10_Witness ==
    \E c \in Conns, gid \in Named("lobby") : \E i, j, k \in 1..Len(out[c]) :
        /\ i < j /\ j < k
        /\ out[c][i] = ConfirmGroupMsg(gid)
        /\ out[c][j] = DestroyGroupMsg(gid)
        /\ out[c][k] = ConfirmGroupMsg(gid)
        /\ WasDestroyed("lobby", gid)

\* C10 as stated: a JoinGroup with the name of a destroyed group is not confirmed
\* with the gid of the destroyed group.
C10_AsStated ==
    [][\A c \in Conns, name \in GroupNames, gid \in Gids :
        (JoinGroup(c, {name}) /\ Named(name) = {} /\ WasDestroyed(name, gid))
        => \A i \in 1..Len(Written(c)) : Written(c)[i] # ConfirmGroupMsg(gid)
      ]_vars

\* The vacant keys of a slab are exactly the keys of its free list, each once.
SlabWellFormed(s) ==
    /\ {s.free[i] : i \in 1..Len(s.free)} = (0..(Len(s.ents) - 1)) \ SlabKeys(s)
    /\ \A i, j \in 1..Len(s.free) : s.free[i] = s.free[j] => i = j

\* C11 (amended): the uid confirmed for an InitUser is held by no user that is in
\* the group at that moment; it is the uid vacated most recently in the group if
\* any uid is vacant, and the number of users otherwise, so the uid of a destroyed
\* user is given out again; the new user is stored under it, owned by the
\* connection, and the other users stay.
C11_UidAmongLive ==
    /\ [](\A gid \in SlabKeys(groups) : SlabWellFormed(SlabGet(groups, gid).users))
    /\ [][\A c \in Conns, gid \in Gids :
            (InitUser(c, {gid}, {TRUE}) /\ SlabHas(groups, gid))
            => LET users == SlabGet(groups, gid).users
               IN  \E uid \in Uids :
                      /\ Written(c) = <<ConfirmUserMsg(uid)>>
                      /\ uid \notin SlabKeys(users)
                      /\ users.free # <<>> => uid = users.free[1]
                      /\ users.free = <<>> => uid = Cardinality(SlabKeys(users))
                      /\ SlabKeys(SlabGet(groups', gid).users) = SlabKeys(users) \cup {uid}
                      /\ SlabGet(SlabGet(groups', gid).users, uid).owner = c
                      /\ \A u \in SlabKeys(users) :
                            SlabGet(SlabGet(groups', gid).users, u) = SlabGet(users, u)
      ]_vars

\* In one group a user was created with a uid, destroyed, and another user was
\* created with the same uid.
C11_Witness ==
    \E ch \in 1..Len(chans) : \E i, j, k \in 1..Len(chans[ch].log) :
        /\ i < j /\ j < k
        /\ chans[ch].log[i].kind = "InitUser"
        /\ chans[ch].log[j].kind = "DestroyUser"
        /\ chans[ch].log[k].kind = "InitUser"
        /\ chans[ch].log[j].uid = chans[ch].log[i].uid
        /\ chans[ch].log[k].uid = chans[ch].log[i].uid

\* C11 as stated: no two InitUser of one group (one channel) carry the same uid.
C11_AsStated ==
    \A ch \in 1..Len(chans) : \A i, j \in 1..Len(chans[ch].log) :
        (/\ i < j
         /\ chans[ch].log[i].kind = "InitUser"
         /\ chans[ch].log[j].kind = "InitUser")
        => chans[ch].log[i].uid # chans[ch].log[j].uid

\* The attachment ids a written message offers.
Offered(m) == {m.atts[p].id : p \in 1..Len(m.atts)}

\* C12: a DownloadAttachment{id} or IgnoreAttachment{id} for an id that is live in
\* the connection's table removes the entry (and only a download writes, one
\* Attachment); for an id that is not live it terminates the connection with an
\* error and writes nothing; every live id was offered to the connection in a
\* Message.
C12_ConsumeOnce ==
    /\ [](\A c \in Conns : \A id \in SlabKeys(att[c]) :
            \E i \in 1..Len(out[c]) : out[c][i].t = "Message" /\ id \in Offered(out[c][i]))
    /\ [][\A c \in Conns, id \in AttIds :
            /\ DownloadAttachment(c, {id})
                => IF SlabHas(att[c], id)
                   THEN /\ SlabKeys(att'[c]) = SlabKeys(att[c]) \ {id}
                        /\ pc'[c] = "select"
                        /\ Len(Written(c)) = 1 /\ Written(c)[1].t = "Attachment"
                   ELSE /\ pc'[c] = "exited"
                        /\ res'[c].r = "Attempted to download a nonexistent attachment"
                        /\ out' = out
            /\ IgnoreAttachment(c, {id})
                => IF SlabHas(att[c], id)
                   THEN /\ SlabKeys(att'[c]) = SlabKeys(att[c]) \ {id}
                        /\ pc'[c] = "select"
                        /\ out' = out
                   ELSE /\ pc'[c] = "exited"
                        /\ res'[c].r = "Attempted to ignore a nonexistent attachment"
                        /\ out' = out
      ]_vars

\* A connection downloaded an attachment and was then terminated by a download
\* of an id that was no longer live.
C12_Witness ==
    \E c \in Conns :
        /\ pc[c] = "exited"
        /\ res[c].r = "Attempted to download a nonexistent attachment"
        /\ ncmds <= 5
        /\ \E i \in 1..Len(out[c]) : out[c][i].t = "Attachment"

\* The position in what was written to c of the latest Message that offers id.
LastOffer(c, id) ==
    CHOOSE i \in 1..Len(out[c]) :
        /\ out[c][i].t = "Message" /\ id \in Offered(out[c][i])
        /\ \A j \in (i + 1)..Len(out[c]) :
              ~(out[c][j].t = "Message" /\ id \in Offered(out[c][j]))

\* The blob the sender attached at the position at which written message m
\* offers id: m was made from the update with m's sender and number.
Attached(m, id) ==
    LET p == CHOOSE p \in 1..Len(m.atts) : m.atts[p].id = id
        ch == CHOOSE ch \in 1..Len(chans) :
                \E k \in 1..Len(chans[ch].log) :
                    chans[ch].log[k].by = m.by /\ chans[ch].log[k].tag = m.tag
        k == CHOOSE k \in 1..Len(chans[ch].log) :
                chans[ch].log[k].by = m.by /\ chans[ch].log[k].tag = m.tag
    IN  [blob |-> chans[ch].log[k].atts[p], size |-> m.atts[p].size]

\* C13: every live attachment id of a connection holds the blob the sender
\* attached at the position at which the latest Message offered the id, and the
\* size announced there is the blob's length; a DownloadAttachment of a live id
\* writes one Attachment with exactly that blob; a download or an ignore by one
\* connection leaves the table of every other connection as it is.
C13_DownloadExact ==
    /\ [](\A c \in Conns : \A id \in SlabKeys(att[c]) :
            LET a == Attached(out[c][LastOffer(c, id)], id)
            IN  /\ SlabGet(att[c], id).data = a.blob
                /\ a.size = Len(a.blob))
    /\ [][\A c \in Conns, id \in AttIds :
            /\ (DownloadAttachment(c, {id}) /\ SlabHas(att[c], id))
                => /\ Len(Written(c)) = 1
                   /\ Written(c)[1].t = "Attachment"
                   /\ Written(c)[1].atts = Attached(out[c][LastOffer(c, id)], id).blob
            /\ (DownloadAttachment(c, {id}) \/ IgnoreAttachment(c, {id}))
                => \A d \in Conns \ {c} : att'[d] = att[d]
      ]_vars

\* A subscriber other than the sender was offered the two attachments of a
\* Message, downloaded the second and was written its one byte.
C13_Witness ==
    \E c, d \in Conns : \E i, j \in 1..Len(out[c]) :
        /\ c # d
        /\ i < j
        /\ out[c][i].t = "Message" /\ out[c][i].by = d
        /\ out[c][i].atts = <<[id |-> 0, size |-> 2], [id |-> 1, size |-> 1]>>
        /\ out[c][j].t = "Attachment" /\ out[c][j].atts = <<"BE">>
        /\ pc[c] = "select"

\* Connection c takes a Message update from update_receiver in this step.
TakesMessage(c) ==
    /\ pc[c] = "select" /\ pc'[c] = "select"
    /\ upd[c] # <<>> /\ upd'[c] = Tail(upd[c])
    /\ Head(upd[c]).ok /\ Head(upd[c]).update.kind = "Message"

\* C14: the live attachment ids of a connection are the occupied keys of a
\* well-formed slab, so they are pairwise distinct; the ids a Message assigns are
\* pairwise distinct, none of them is live when it is assigned, and the live
\* attachments stay as they are.
C14_LiveIdsDistinct ==
    /\ [](\A c \in Conns : SlabWellFormed(att[c]))
    /\ [][\A c \in Conns :
            TakesMessage(c)
            => LET m == Written(c)[1]
               IN  /\ Len(Written(c)) = 1 /\ m.t = "Message"
                   /\ Cardinality(Offered(m)) = Len(m.atts)
                   /\ Len(m.atts) = Len(Head(upd[c]).update.atts)
                   /\ Offered(m) \cap SlabKeys(att[c]) = {}
                   /\ SlabKeys(att'[c]) = SlabKeys(att[c]) \cup Offered(m)
                   /\ \A id \in SlabKeys(att[c]) : SlabGet(att'[c], id) = SlabGet(att[c], id)
      ]_vars

\* A connection was offered the attachments of a second Message while
\* attachments of the first were live.
C14_Witness ==
    \E c \in Conns : \E i, j \in 1..Len(out[c]) :
        /\ i < j
        /\ out[c][i].t = "Message" /\ out[c][j].t = "Message"
        /\ Offered(out[c][i]) \cap SlabKeys(att[c]) # {}
        /\ Offered(out[c][j]) \subseteq SlabKeys(att[c])
        /\ Offered(out[c][i]) \cap Offered(out[c][j]) = {}

\* C15 (amended): the ids a Message assigns on a connection are the vacant ids of
\* its table, the most recently vacated first, and after them the ids that were
\* never used, in increasing order: an id that was downloaded or ignored is
\* assigned again, and only while nothing is vacant is a new id greater than every
\* id assigned before.
C15_IdsFromVacant ==
    [][\A c \in Conns :
        TakesMessage(c)
        => LET m == Written(c)[1]
               free == att[c].free
           IN  \A p \in 1..Len(m.atts) :
                  m.atts[p].id = IF p <= Len(free) THEN free[p]
                                 ELSE Len(att[c].ents) + (p - Len(free) - 1)
      ]_vars

\* A connection was offered an id, and after consuming it was offered the same id
\* by a later Message.
C15_Witness ==
    \E c \in Conns : \E i, j \in 1..Len(out[c]) :
        /\ i < j
        /\ out[c][i].t = "Message" /\ out[c][j].t = "Message"
        /\ Offered(out[c][i]) \cap Offered(out[c][j]) # {}

\* C15 as stated: every id assigned on a connection is greater than every id
\* assigned earlier on it.
C15_AsStated ==
    \A c \in Conns : \A i, j \in 1..Len(out[c]) :
        (out[c][i].t = "Message" /\ out[c][j].t = "Message")
        => /\ i < j => \A a \in Offered(out[c][i]), b \in Offered(out[c][j]) : a < b
           /\ \A p, q \in 1..Len(out[c][i].atts) :
                 p < q => out[c][i].atts[p].id < out[c][i].atts[q].id

\* C16 (amended): an accepted SendMessage allocates no attachment slot; every
\* connection that takes the Message update from its subscription, the sending
\* connection included when it is subscribed, allocates one slot per blob in its
\* own table and is offered one id per blob.
C16_SlotPerBlob ==
    [][\A c \in Conns :
        /\ (SendMessage(c, Gids, Uids, {<<<<"DE", "AD">>, <<"BE">>>>}) /\ pc'[c] = "select")
            => att' = att
        /\ TakesMessage(c)
            => /\ Cardinality(SlabKeys(att'[c]))
                    = Cardinality(SlabKeys(att[c])) + Len(Head(upd[c]).update.atts)
               /\ Len(Written(c)[1].atts) = Len(Head(upd[c]).update.atts)
               /\ \A d \in Conns \ {c} : att'[d] = att[d]
      ]_vars

\* The sender and another subscriber both hold the two attachments of the
\* sender's Message in their tables.
C16_Witness ==
    \E c, d \in Conns : \E i \in 1..Len(out[c]), j \in 1..Len(out[d]) :
        /\ c # d
        /\ out[c][i].t = "Message" /\ out[c][i].by = c
        /\ out[d][j].t = "Message" /\ out[d][j].by = c
        /\ Len(out[c][i].atts) = 2
        /\ Offered(out[c][i]) \subseteq SlabKeys(att[c])
        /\ Offered(out[d][j]) \subseteq SlabKeys(att[d])

\* C16 as stated: the connection that sent a Message allocates no slot in its
\* own table when it takes the Message from its subscription.
C16_AsStated ==
    [][\A c \in Conns :
        (TakesMessage(c) /\ Head(upd[c]).update.by = c) => att'[c] = att[c]
      ]_vars

\* The number of values by which a receiver at position next is behind the
\* capacity of a channel that holds len values.
Behind(len, next) == len - next - Cap

\* C17: a reader subtask whose receiver is behind the capacity by N > 0 forwards
\* the lag N and stops, a connection that takes a lag N from update_receiver
\* returns "Skipped N group updates", and a connection whose global receiver is
\* behind by N > 0 returns "Skipped N global updates"; a receiver that is not
\* behind takes the next value; every update a live subscription has passed is
\* queued or written, so nothing after a gap is written; with a capacity of 1
\* and two values not received, N is 1.
C17_LagFatal ==
    /\ [](\A c \in Conns : \A h \in Subscriptions(c) :
            InLoop(c)
            => \A k \in (relays[h].start + 1)..relays[h].next :
                  LET u == chans[relays[h].ch].log[k]
                  IN  Cardinality(EventAt(c, u)) + Cardinality(QueuedAt(c, u)) = 1)
    /\ [][/\ \A h \in DOMAIN relays :
                LET r == relays[h]
                    n == Behind(Len(chans[r.ch].log), r.next)
                IN  (Relay(h) /\ ~Dropped(r.conn))
                    => IF n > 0
                       THEN /\ upd'[r.conn] = Append(upd[r.conn], [ok |-> FALSE, num |-> n])
                            /\ ~relays'[h].alive
                            /\ (Cap = 1 /\ Len(chans[r.ch].log) - r.next = 2) => n = 1
                       ELSE \/ /\ r.next < Len(chans[r.ch].log)
                               /\ relays'[h].next = r.next + 1
                               /\ upd'[r.conn] = Append(upd[r.conn],
                                     [ok |-> TRUE, gid |-> r.gid,
                                      update |-> chans[r.ch].log[r.next + 1]])
                            \/ /\ r.next = Len(chans[r.ch].log)
                               /\ ~relays'[h].alive
                               /\ upd' = upd
          /\ \A c \in Conns :
                /\ (RecvUpdate(c) /\ ~Head(upd[c]).ok)
                    => /\ pc'[c] = "exited"
                       /\ res'[c] = Result("Skipped group updates", Head(upd[c]).num)
                       /\ out' = out
                /\ RecvGlobal(c)
                    => LET n == Behind(Len(glob), gpos[c])
                       IN  IF n > 0
                           THEN /\ pc'[c] = "exited"
                                /\ res'[c] = Result("Skipped global updates", n)
                                /\ out' = out
                           ELSE /\ gpos'[c] = gpos[c] + 1
                                /\ Written(c)[1].gid = glob[gpos[c] + 1].gid
                                /\ Written(c)[1].t = glob[gpos[c] + 1].kind
      ]_vars

\* A connection has returned with "Skipped 1 group updates" with a capacity of 1.
C17_Witness ==
    \E c \in Conns :
        /\ Cap = 1
        /\ pc[c] = "exited"
        /\ res[c] = Result("Skipped group updates", 1)

\* The peer of c presented the current version and a token of the allow-list.
Accepted(c) ==
    /\ Len(hello[c]) = 2
    /\ hello[c][1] = CURRENT
    /\ hello[c][2].access_token \in access_tokens

\* The handshake of c has ended and its peer was not accepted.
Rejected(c) == hello[c] # <<>> /\ ~Accepted(c)

\* C18: a connection is past the handshake only if its peer presented the current
\* version and a token of the allow-list; after a version mismatch no AuthRequest
\* has been read and only the server's version is written; after an unknown token
\* the server's version and AuthResponse::Failed are written and nothing else; in
\* both cases `connection` has returned, no command of the connection is processed, it
\* has no membership, reader subtask or user and has sent no update.
C18_HandshakeGate ==
    /\ [](\A c \in Conns :
            /\ pc[c] \in {"subscribe", "select", "join_snap", "global_snap"}
                => Accepted(c)
            /\ Rejected(c)
                => /\ pc[c] \in {"exited", "cleanup", "done"}
                   /\ IF hello[c][1] # CURRENT
                      THEN /\ Len(hello[c]) = 1
                           /\ pc[c] = "exited"
                               => /\ out[c] = <<VersionMsg(CURRENT)>>
                                  /\ res[c] = Result("Incompatible version", 0)
                      ELSE /\ hello[c][2].access_token \notin access_tokens
                           /\ pc[c] = "exited"
                               => /\ out[c] = <<VersionMsg(CURRENT), AuthFailedMsg>>
                                  /\ res[c] = Result("Invalid access token", 0)
                   /\ pc[c] # "exited" => out[c] = <<>>
                   /\ cur[c] = NoCmd
                   /\ ntag[c] = 0
                   /\ \A gid \in Gids : mem[c][gid] = NoMem
                   /\ \A h \in DOMAIN relays : relays[h].conn # c
                   /\ UsersOwnedBy(c) = {})
    /\ [][\A c \in Conns :
            Rejected(c)
            => ~(\/ JoinGroup(c, {"lobby"})
                 \/ LeaveGroup(c, {0})
                 \/ InitUser(c, {0}, {TRUE})
                 \/ Shutdown(c))]_vars

\* A peer with an unknown token has been turned away, and is written nothing of
\* the group that another connection has created.
C18_Witness ==
    \E c \in Conns :
        /\ Len(hello[c]) = 2
        /\ hello[c][2].access_token \notin access_tokens
        /\ out[c] = <<VersionMsg(CURRENT), AuthFailedMsg>>
        /\ SlabKeys(groups) # {}

\* C19: the step that accepts a connection writes, after the server's version and
\* AuthResponse::Success, exactly one InitGroup{gid,name} for every group the
\* registry holds at that instant and nothing else; whatever is written to the
\* connection later is written after them.
C19_InitialSnapshot ==
    [][\A c \in Conns :
          /\ (pc[c] = "new" /\ pc'[c] = "subscribe")
              => LET w == Written(c)
                     n == Cardinality(SlabKeys(groups))
                 IN  /\ out[c] = <<>>
                     /\ Len(w) = n + 2
                     /\ w[1] = VersionMsg(CURRENT)
                     /\ w[2] = AuthSuccessMsg
                     /\ \A gid \in SlabKeys(groups) :
                           \E i \in 3..(n + 2) :
                               w[i] = InitGroupMsg(gid, SlabGet(groups, gid).name)
                     /\ \A i \in 3..(n + 2) :
                           w[i].t = "InitGroup" /\ w[i].gid \in SlabKeys(groups)
          /\ (pc[c] # "new" /\ pc'[c] # "cleanup")
              => /\ Len(out'[c]) >= Len(out[c])
                 /\ SubSeq(out'[c], 1, Len(out[c])) = out[c]
      ]_vars

\* A connection was written the InitGroup of the one group that existed when it
\* was accepted, and then the reply to its own JoinGroup.
C19_Witness ==
    \E c \in Conns :
        /\ Len(out[c]) >= 4
        /\ out[c][2] = AuthSuccessMsg
        /\ out[c][3] = InitGroupMsg(0, "lobby")
        /\ out[c][4] = ConfirmGroupMsg(0)

\* C20: an InitUser{gid,name} handled for a connection that holds no membership
\* for gid makes `connection` return, leaves the registry as it is and sends
\* nothing on any group's channel.
C20_InitUserNeedsMembership ==
    [][\A c \in Conns :
          (InitUser(c, {0}, {TRUE}) /\ mem[c][0] = NoMem)
          => /\ pc'[c] = "exited"
             /\ groups' = groups
             /\ chans' = chans
      ]_vars

\* The Ping messages written to connection c.
Pings(c) == {i \in 1..Len(out[c]) : out[c][i].t = "Ping"}

\* C21: `connection` returns "Pong timeout" only when a Ping has been written, no
\* frame of the peer has been handled since that Ping and ping_timeout has passed
\* since it; handling a frame of the peer, of any kind, ends the wait for a pong
\* and resets both intervals to a full period from now.
C21_PongTimeoutOnlyAwaiting ==
    [][\A c \in Conns :
          /\ (pc[c] = "select" /\ res'[c] = Result("Pong timeout", 0))
              => /\ timers[c].pinged >= 0
                 /\ ~timers[c].answered
                 /\ now >= timers[c].pinged + durations.ping_timeout
          /\ ((Pong(c) \/ JoinGroup(c, {"lobby"})) /\ pc'[c] # "exited")
              => /\ ~timers'[c].waiting_pong
                 /\ timers'[c].ping_interval = now + durations.ping_interval
                 /\ timers'[c].pong_interval = now + durations.ping_timeout
      ]_vars

\* With a ping-interval of 2 and a ping-timeout of 1, connection 1 has handled one
\* frame of its peer after the first Ping, was sent a second Ping and has returned
\* "Pong timeout".
C21_Witness ==
    /\ durations = [ping_interval |-> 2, ping_timeout |-> 1]
    /\ pc[1] = "exited"
    /\ res[1] = Result("Pong timeout", 0)
    /\ Cardinality(Pings(1)) = 2
    /\ ncmds = 1
    /\ pc[2] = "new"

\* C22: a connection is in its loop no later than ping_interval + ping_timeout
\* after it entered the loop or handled the last frame of its peer, and it returns
\* "Pong timeout" exactly then. (The clock does not pass a timer that has expired.)
C22_SilentPeerClosed ==
    /\ [](\A c \in Conns :
            pc[c] = "select"
            => now <= timers[c].active + durations.ping_interval + durations.ping_timeout)
    /\ [][\A c \in Conns :
            (pc[c] = "select" /\ res'[c] = Result("Pong timeout", 0))
            => now = timers[c].active + durations.ping_interval + durations.ping_timeout
      ]_vars

\* The users connection c owns in the registry gs, with their names.
OwnedUsers(gs, c) ==
    {x \in [gid : Gids, uid : Uids, name : UserNames \cup NewNames] :
        /\ SlabHas(gs, x.gid)
        /\ SlabHas(SlabGet(gs, x.gid).users, x.uid)
        /\ SlabGet(SlabGet(gs, x.gid).users, x.uid).owner = c
        /\ SlabGet(SlabGet(gs, x.gid).users, x.uid).name = x.name}

\* A receiver connection b holds, of a group's channel or of State.sender, is
\* behind the capacity of its channel, given the channels cs and gl.
Lagging(cs, gl, b) ==
    \/ gpos[b] >= 0 /\ Len(gl) - gpos[b] > Cap
    \/ \E h \in DOMAIN relays :
          /\ relays[h].conn = b /\ relays[h].alive
          /\ Len(cs[relays[h].ch].log) - relays[h].next > Cap

\* C23: the cleanup of a connection a leaves every other connection b that is in
\* its loop where it is, with its memberships, the users it owns and their names
\* and its attachments as they were, and puts no receiver of b behind the capacity
\* of its channel.
C23_CleanupIsolated ==
    [][\A a, b \in Conns :
          (a # b /\ InLoop(b) /\ (CleanupAbort(a) \/ CleanupRetain(a)))
          => /\ pc'[b] = pc[b]
             /\ mem'[b] = mem[b]
             /\ att'[b] = att[b]
             /\ OwnedUsers(groups', b) = OwnedUsers(groups, b)
             /\ Lagging(chans', glob', b) => Lagging(chans, glob, b)
      ]_vars


\* The calls of read_update in the history, in order.
Reads == SelectSeq(returned, LAMBDA r : r.call = "read_update")

\* C24: read_update is cancel-safe: dropping its future removes nothing from the
\* reader channel or the pending queue, and the next read_update returns exactly
\* the update the cancelled call would have returned.
C24_ReadUpdateCancelSafe ==
    /\ [](\A i \in 1..(Len(Reads) - 1) :
            (Reads[i].err = "cancelled" /\ Reads[i].v # 0)
                => \/ Reads[i + 1] = Ok("read_update", Reads[i].v)
                   \/ Reads[i + 1].err = "cancelled" /\ Reads[i + 1].v = Reads[i].v)
    /\ [][CancelRead => UNCHANGED <<receiver, updates, reader, stream_read>>]_vars

\* A read_update was cancelled while an update was ready in the channel, and the
\* next read_update returned that update.
C24_Witness ==
    \E i \in 1..(Len(Reads) - 1) :
        /\ Reads[i].err = "cancelled"
        /\ Reads[i].v # 0
        /\ Reads[i + 1] = Ok("read_update", Reads[i].v)


\* The numbers of the updates among frames, in order.
RECURSIVE UpdatesIn(_)
UpdatesIn(frames) ==
    IF frames = <<>> THEN <<>>
    ELSE (IF Head(frames).t = "Update" THEN <<Head(frames).n>> ELSE <<>>)
            \o UpdatesIn(Tail(frames))

\* The updates read_update has returned so far, in order.
RECURSIVE Values(_)
Values(rs) ==
    IF rs = <<>> THEN <<>>
    ELSE (IF Head(rs).ok THEN <<Head(rs).v>> ELSE <<>>) \o Values(Tail(rs))
Surfaced == Values(Reads)

\* The updates on their way to the caller, nearest first: the pending queue, the
\* channel, the message the reading task holds, and the stream.
OnTheWay ==
    updates \o UpdatesIn(receiver.buf)
            \o (IF reader.pc = "send" THEN UpdatesIn(<<reader.msg>>) ELSE <<>>)
            \o UpdatesIn(stream_read)

\* The number of request calls among the first i entries of the history.
RequestsUpTo(i) == Cardinality({j \in 1..i : returned[j].call \in Requests})

\* C25: the client surfaces updates in the order the server sent them, without
\* loss or duplication: what read_update has returned, followed by the pending
\* queue and by what is still in the channel and the stream, is the sequence of
\* updates the server sent; updates that arrive during a request are appended to
\* the queue; a request that succeeds returns the reply to itself.
C25_UpdatesInOrder ==
    /\ [](Surfaced = [i \in 1..Len(Surfaced) |-> i])
    /\ [](caller.pc \in {"idle", "request", "read_update"}
            => Surfaced \o OnTheWay = [i \in 1..peer.updates |-> i])
    /\ [](\A i \in 1..Len(returned) :
            (returned[i].call \in Requests /\ returned[i].ok)
                => returned[i].v = RequestsUpTo(i))
    /\ [][(RequestRecv /\ updates' # updates)
            => /\ Head(receiver.buf).t = "Update"
               /\ updates' = Append(updates, Head(receiver.buf).n)
               /\ UNCHANGED <<caller, returned>>]_vars

\* Two updates arrived while a request waited for its reply; the request returned
\* the reply, the next read_update returned the first of them and the second is
\* still queued.
C25_Witness ==
    /\ Len(returned) = 2
    /\ returned[1].call \in Requests /\ returned[1].ok
    /\ returned[2] = Ok("read_update", 1)
    /\ updates = <<2>>


\* The number of frames t among frames.
Count(frames, t) == Cardinality({i \in 1..Len(frames) : frames[i] = t})

\* The Pings the reading task has read.
PingsRead ==
    (peer.frames - peer.updates - peer.replies)
        - Cardinality({i \in 1..Len(stream_read) : stream_read[i].t = "Ping"})

\* The reading task gets rid of the message it holds.
Disposes == reader.pc = "send" /\ reader'.pc # "send"

\* C26: the client answers a Ping it has read with exactly one Pong, or, when the
\* write of the Pong fails, reports the error; a Ping is never put on the channel,
\* so translate_message never sees one; every other message or fault read is put
\* on the channel unless the caller has closed it.
C26_PingAnsweredInternally ==
    /\ [](/\ \A i \in 1..Len(receiver.buf) : receiver.buf[i].t # "Ping"
          /\ reader.pc = "send" => reader.msg.t # "Ping"
          /\ caller.pc # "panicked"
          /\ Count(stream_write, "Pong") + (IF reader.pc = "pong" THEN 1 ELSE 0) <= PingsRead)
    /\ [][(ReaderRead /\ Head(stream_read).t = "Ping")
            => reader'.pc = "pong" /\ UNCHANGED <<receiver, updates, stream_write>>]_vars
    /\ [][(ReaderRead /\ Head(stream_read).t # "Ping")
            => reader' = [pc |-> "send", msg |-> Head(stream_read)]]_vars
    /\ [][(reader.pc = "pong" /\ reader'.pc # "pong")
            => \/ stream_write' = Append(stream_write, "Pong") /\ reader'.pc = "select"
               \/ stream_write' = stream_write /\ reader' = [pc |-> "send", msg |-> Frame("Error", 0)]]_vars
    /\ [][Count(stream_write', "Pong") # Count(stream_write, "Pong") => reader.pc = "pong"]_vars
    /\ [][Disposes
            => \/ receiver'.buf = Append(receiver.buf, reader.msg)
               \/ receiver.closed /\ reader'.pc = "returned"]_vars

\* The reading task has read a Ping and an update: the Ping was answered with a
\* Pong and the update was returned by read_update.
C26_Witness ==
    /\ PingsRead = 1
    /\ Count(stream_write, "Pong") = 1
    /\ reader.pc = "select"
    /\ Surfaced = <<1>>

\* C26 as stated: every message or fault other than Ping that the reading task
\* has read is delivered to the caller.
C26_AsStated == [][Disposes => receiver'.buf = Append(receiver.buf, reader.msg)]_vars


\* C27: shutdown terminates and is ordered: once it has closed the channel the
\* reading task returns from whatever it is doing, only then Shutdown is written,
\* and no frame is written after it.
C27_ShutdownOrdered ==
    /\ (caller.pc = "shutdown") ~> (caller.pc = "done")
    /\ [](caller.pc = "shutdown" => receiver.closed)
    /\ [](caller.pc = "done"
            => /\ reader.pc = "returned"
               /\ stream_write # <<>>
               /\ stream_write[Len(stream_write)] = "Shutdown"
               /\ Count(stream_write, "Shutdown") = 1)
    /\ [][Count(stream_write', "Shutdown") # Count(stream_write, "Shutdown")
            => reader.pc = "returned" /\ reader'.pc = "returned"]_vars
    /\ [][Count(stream_write, "Shutdown") > 0 => stream_write' = stream_write]_vars

\* shutdown has returned although the reading task held an update for a full
\* channel when the channel was closed (the update was dropped), and a Pong was
\* written before Shutdown.
C27_Witness ==
    /\ caller.pc = "done"
    /\ Len(receiver.buf) = IncomingBuffer
    /\ Len(Surfaced \o OnTheWay) < peer.updates
    /\ Count(stream_write, "Pong") = 1


\* The size of the payload of the message on the wire and the frame of the Ping
\* written after it.
PayloadSize == Len(to_vec(wire.message))
PingFrame == <<5, 164, 80, 105, 110, 103>>

\* C28: a message whose payload is within the limits of writer and reader is read
\* back equal, and the read consumes exactly the bytes written for it: what is
\* left on the stream is the frame written after it.
C28_WireRoundTrip ==
    (wire.pc = "read" /\ PayloadSize <= wire.write_max /\ PayloadSize <= wire.read_max)
        => /\ wire.written.ok
           /\ wire.read = Good(wire.message)
           /\ wire.stream = PingFrame
           /\ wire.frame = PayloadSize + ((PayloadSize + ChunkSize) \div ChunkSize)

\* An attachment whose payload is two full chunks was read back.
C28_Witness ==
    /\ wire.pc = "read"
    /\ PayloadSize = 2 * ChunkSize
    /\ wire.message.variant = "Attachment"
    /\ wire.read = Good(wire.message)
    /\ wire.stream = PingFrame

\* C29: write accepts a payload of exactly max_size and refuses a larger one with
\* the size-limit error, writing nothing; read accepts a frame whose chunks sum
\* to exactly max_size and refuses a larger one with the size-limit error.
C29_SizeBoundary ==
    /\ wire.pc \in {"written", "next", "read"}
        => /\ wire.written.ok <=> PayloadSize <= wire.write_max
           /\ ~wire.written.ok
                => wire.written.err = "Data size exceeded limit" /\ wire.frame = 0
    /\ (wire.pc = "read" /\ wire.written.ok)
        => /\ wire.read.ok <=> PayloadSize <= wire.read_max
           /\ ~wire.read.ok => wire.read.err = "Data size exceeded limit"

\* A payload of more than one chunk and of exactly max_size for both sides was
\* written and read.
C29_Witness ==
    /\ wire.pc = "read"
    /\ PayloadSize > ChunkSize
    /\ wire.write_max = PayloadSize
    /\ wire.read_max = PayloadSize
    /\ wire.written.ok
    /\ wire.read.ok


\* A string of exactly 64 lowercase hexadecimal characters.
LowercaseHex(s) ==
    /\ Len(s) = 2 * LENGTH
    /\ \A k \in 1..Len(s) : s[k] \in 48..57 \/ s[k] \in 97..102

\* Formatting a token gives 64 lowercase hexadecimal characters that parse back
\* to the token.
FormatThenParse ==
    /\ (parse.pc \in {"str", "parsed"} /\ parse.t # <<>>) => LowercaseHex(parse.s)
    /\ (parse.pc = "parsed" /\ parse.t # <<>>) => parse.result = [r |-> "Ok", token |-> parse.t]
    /\ (parse.pc = "parsed" /\ LowercaseHex(parse.s))
            => parse.result.r = "Ok" /\ fmt(parse.result.token) = parse.s

\* C30: the parser accepts a string if and only if it is exactly 64 lowercase
\* hexadecimal characters and rejects every other string.
C30_ParserExact ==
    parse.pc = "parsed"
        => /\ parse.result.r = "Ok" <=> LowercaseHex(parse.s)
           /\ ~LowercaseHex(parse.s) => parse.result.r = "Err"


\* A version written is read back equal from its four bytes, and the version
\* written after it is left on the stream.
VersionRoundTrip ==
    wire.pc \in {"read", "compared"}
        => /\ wire.read.ok
           /\ wire.read.version = wire.a
           /\ wire.stream = U16(wire.b.major) \o U16(wire.b.minor)
           /\ (wire.pc = "compared" /\ wire.a = wire.b) => wire.compatible

\* C31: two versions are compatible if and only if they are equal.
C31_CompatibleIffEqual ==
    wire.pc = "compared" => (wire.compatible <=> wire.read.version = wire.b)


\* The task of c waits for a write to its socket to complete.
AwaitsWrite(c) == pc[c] \in {"confirm_user", "confirm_group"}

\* C32: a connection task never waits for a socket write while it holds the
\* lock of the group registry.
C32_NoWriteUnderLock == \A c \in Conns : AwaitsWrite(c) => lock # c


\* An InitUser of a snapshot was written to c twice. (No connection leaves a
\* group under SpecOrder, so both belong to one membership.)
SnapshotTwice(c) ==
    \E i, j \in 1..Len(out[c]) :
        i < j /\ out[c][i].t = "InitUser" /\ out[c][i].tag = 0 /\ out[c][j] = out[c][i]

\* C33: the snapshot of a membership is written once: once it has been written
\* on the confirm path, newly_joined of that membership is false, and no global
\* InitGroup handled later writes a second snapshot.
C33_SnapshotOnce ==
    /\ [][\A c \in Conns : JoinSnapshot(c) => ~mem'[c][cur[c].gid].newly_joined]_vars
    /\ [](\A c \in Conns : pc[c] \in {"select", "join_snap", "global_snap"}
                                => ~SnapshotTwice(c))


\* Connection c, subscribed to the group gid, leaves it.
Leaves(c, gid) == SlabHas(groups, gid) /\ mem[c][gid] # NoMem /\ LeaveGroup(c, {gid})

\* The DestroyUser updates stored on channel ch by this step, as uids.
DestroyedOn(ch) ==
    {chans'[ch].log[i].uid : i \in (Len(chans[ch].log) + 1)..Len(chans'[ch].log)}

\* The step ends the subscription of c to gid, removes the users c owns in gid
\* and broadcasts a DestroyUser for each of them.
LeaveRemovesOwn(c, gid) ==
    /\ mem'[c][gid] = NoMem
    /\ ~relays'[mem[c][gid].handle].alive
    /\ \A x \in OwnedUsers(groups', c) : x.gid # gid
    /\ ReceiverCount(relays', SlabGet(groups, gid).ch) > 0
        => DestroyedOn(SlabGet(groups, gid).ch) = Owned(SlabGet(groups, gid), c)

\* The step destroys the group, with a global DestroyGroup, exactly if no
\* subscriber remains: no reader subtask holds a receiver of its channel.
LeaveDestroysIfEmpty(c, gid) ==
    /\ ~SlabHas(groups', gid)
        <=> ~\E h \in DOMAIN relays' : relays'[h].alive /\ relays'[h].gid = gid
    /\ IF SlabHas(groups', gid) THEN glob' = glob
       ELSE /\ Len(glob') = Len(glob) + 1
            /\ glob'[Len(glob')].kind = "DestroyGroup"
            /\ glob'[Len(glob')].gid = gid

\* The step leaves the users of other connections, the users in other groups and
\* the other memberships of c as they are.
LeaveKeepsOthers(c, gid) ==
    /\ \A b \in Conns \ {c} : OwnedUsers(groups', b) = OwnedUsers(groups, b)
    /\ {x \in OwnedUsers(groups', c) : x.gid # gid} = {x \in OwnedUsers(groups, c) : x.gid # gid}
    /\ \A g \in Gids \ {gid} : mem'[c][g] = mem[c][g]
    /\ \A b \in Conns \ {c} : mem'[b] = mem[b]

\* C34: LeaveGroup{gid} from a subscribed connection ends that subscription,
\* removes exactly the users it owns in gid with a DestroyUser for each, destroys
\* the group exactly if no subscriber remains, and leaves every other user and
\* membership unchanged; LeaveGroup for a nonexistent or non-joined group
\* terminates the connection without changing the registry.
C34_LeaveGroupEffect ==
    [][\A c \in Conns, gid \in Gids :
        /\ Leaves(c, gid)
            => /\ LeaveRemovesOwn(c, gid)
               /\ LeaveDestroysIfEmpty(c, gid)
               /\ LeaveKeepsOthers(c, gid)
        /\ (LeaveGroup(c, {gid}) /\ (~SlabHas(groups, gid) \/ mem[c][gid] = NoMem))
            => pc'[c] = "exited" /\ groups' = groups /\ mem' = mem
      ]_vars

\* ------------------------------------------------------------------ the view of the group set
\* The gids a peer holds after reading frames: InitGroup adds one, DestroyGroup
\* removes it (server.rs 179-189, 585-603).
RECURSIVE GroupView(_)
GroupView(frames) ==
    IF frames = <<>> THEN {}
    ELSE LET last == frames[Len(frames)]
             before == GroupView(SubSeq(frames, 1, Len(frames) - 1))
         IN  IF last.t = "InitGroup" THEN before \cup {last.gid}
             ELSE IF last.t = "DestroyGroup" THEN before \ {last.gid}
             ELSE before

\* The connection is past the handshake, at select!, and has received every
\* global update broadcast so far.
CaughtUp(c) == pc[c] = "select" /\ gpos[c] = Len(glob)

\* C35: for a connection past the handshake that has processed every global update
\* broadcast so far, the gids announced to it by InitGroup and not followed by
\* DestroyGroup are the groups of the registry; none created or destroyed between
\* its initial snapshot and its subscription to the global channel is missed.
C35_ViewConverges ==
    \A c \in Conns : CaughtUp(c) /\ lock = 0 => GroupView(out[c]) = SlabKeys(groups)

\* ------------------------------------------------------------------ the roster of a subscriber
\* The roster a peer keeps from the frames it has read: the pairs <<gid, uid>> with an
\* InitUser and no DestroyUser since. ok turns FALSE at an InitUser for a pair in
\* the roster and at a DestroyUser, Rename or Message for a pair not in it.
RECURSIVE Roster(_)
Roster(frames) ==
    IF frames = <<>> THEN [ok |-> TRUE, users |-> {}]
    ELSE LET last == frames[Len(frames)]
             before == Roster(SubSeq(frames, 1, Len(frames) - 1))
             user == <<last.gid, last.uid>>
         IN  IF last.t = "InitUser"
             THEN [ok |-> before.ok /\ user \notin before.users,
                   users |-> before.users \cup {user}]
             ELSE IF last.t = "DestroyUser"
             THEN [ok |-> before.ok /\ user \in before.users,
                   users |-> before.users \ {user}]
             ELSE IF last.t \in {"Rename", "Message"}
             THEN [ok |-> before.ok /\ user \in before.users, users |-> before.users]
             ELSE before

\* C36: on every connection each DestroyUser, Rename or Message written for
\* (gid, uid) follows an InitUser{gid, uid} written to it with no DestroyUser{gid, uid}
\* since, and each InitUser{gid, uid} written is for a uid not in that roster.
C36_RosterConsistent == \A c \in Conns : Roster(out[c]).ok

\* ------------------------------------------------------------------ group events after a leave
\* The loop takes a group update from update_receiver and writes it as a frame.
WritesUpdate(c, gid) ==
    /\ RecvUpdate(c)
    /\ Head(upd[c]).ok
    /\ Head(upd[c]).gid = gid

\* C37: a group event is written to a connection only while it is a member of the
\* group: once LeaveGroup{gid} has been handled, no InitUser, DestroyUser, Rename
\* or Message of that gid still queued in the aggregation channel is written.
C37_EventsOnlyToMembers ==
    [][\A c \in Conns, gid \in Gids : WritesUpdate(c, gid) => mem[c][gid] # NoMem]_vars

\* ------------------------------------------------------------------ the names of the registry
\* The name of the group under a key of the registry.
NameOf(gid) == SlabGet(groups, gid).name

\* C38: group names are unique in the registry: in every reachable state no two
\* groups have the same name, whatever the order of the JoinGroup commands of
\* different connections.
C38_NamesUnique ==
    \A g1 \in SlabKeys(groups), g2 \in SlabKeys(groups) : NameOf(g1) = NameOf(g2) => g1 = g2

\* Both connections have joined by the same name: each holds a membership of the
\* one group the registry has, and both loops are back at select!.
C38_Witness ==
    /\ \E gid \in SlabKeys(groups) : \A c \in Conns : mem[c][gid] # NoMem
    /\ Cardinality(SlabKeys(groups)) = 1
    /\ \A c \in Conns : pc[c] = "select"

\* ------------------------------------------------------------------ the global events of a gid
\* The kinds of the global updates of one gid, in the order of the channel.
KindsOf(sent, gid) ==
    LET of == SelectSeq(sent, LAMBDA u : u.gid = gid)
    IN  [i \in 1..Len(of) |-> of[i].kind]

\* InitGroup and DestroyGroup take turns.
Alternates(kinds) == \A i \in 1..(Len(kinds) - 1) : kinds[i] # kinds[i + 1]

\* The global updates a receiver has not taken yet: all that were sent since.
Unread(c) == SubSeq(glob, gpos[c] + 1, Len(glob))

\* What a step sends on the global channel for a gid, and what the change of the
\* registry calls for while the channel has a receiver (with none, send fails and
\* nothing is kept: server.rs 295, 362, 100 ignore the result).
SentFor(gid) == KindsOf(SubSeq(glob', Len(glob) + 1, Len(glob')), gid)
CalledFor(gid) ==
    IF GlobalReceivers = {} THEN <<>>
    ELSE IF ~SlabHas(groups, gid) /\ SlabHas(groups', gid) THEN <<"InitGroup">>
    ELSE IF SlabHas(groups, gid) /\ ~SlabHas(groups', gid) THEN <<"DestroyGroup">>
    ELSE <<>>

\* For every receiver of the global channel, the events of a gid sent since it
\* last took one alternate, and while the lock is free the last of them is
\* InitGroup exactly when the gid is in the registry.
AlternatesForReceivers ==
    \A c \in GlobalReceivers, gid \in Gids :
        LET kinds == KindsOf(Unread(c), gid)
        IN  /\ Alternates(kinds)
            /\ (lock = 0 /\ kinds # <<>>)
                => (kinds[Len(kinds)] = "InitGroup" <=> SlabHas(groups, gid))

Contiguous(stream) ==
    \A i \in 1..Len(stream), k \in 1..Len(stream) :
        (i < k /\ stream[i].frame = stream[k].frame)
            => \A j \in i..k : stream[j].frame = stream[i].frame

\* The reading task waits for the mutex.
TaskWaits == wire.task.pc = "lock"

\* The caller waits for the reply to a command it has written.
CallerWaits == wire.caller.pc = "recv"

\* C40: the Pong frames of the reading task and the command frames of the caller
\* never interleave on the wire: every write call is made by the holder of the
\* writer mutex and the calls of a frame are contiguous; the reading task waiting
\* for the mutex and a caller waiting for a reply never block each other: the
\* task gets the mutex and the caller's wait ends.
C40_FramesNeverInterleave ==
    /\ [](Contiguous(wire.stream))
    /\ [][wire'.stream # wire.stream
            => /\ wire.guard = wire'.stream[Len(wire'.stream)].by
               /\ wire'.guard = wire.guard]_vars
    /\ []((TaskWaits /\ CallerWaits) => wire.guard = "none")
    /\ (TaskWaits ~> ~TaskWaits)
    /\ (CallerWaits ~> ~CallerWaits)

\* A Pong frame is whole on the stream, the caller holds the mutex in the middle of
\* a command that takes three write calls, and the reading task, with the next
\* Ping read, waits for the mutex.
C40_Witness ==
    /\ wire.pc = "mutex"
    /\ wire.guard = "caller"
    /\ wire.caller.left \in {1, 2}
    /\ wire.stream # <<>>
    /\ wire.stream[Len(wire.stream)].by = "caller"
    /\ \E i \in 1..Len(wire.stream) : wire.stream[i].by = "reader"
    /\ TaskWaits

============================================================================
